---- MODULE Spec2Model ----
(***************************************************************************)
(* A model of the template core of django-note (django/template/base.py   *)
(* and django/template/context.py): variable lookup, filter expressions   *)
(* and the rendering of variable nodes.                                    *)
(*                                                                         *)
(* Python values are records of one shape (kind, s, safe, id, n).  Text is *)
(* a sequence of one-character strings; `safe` is the SafeData marking.    *)
(* Objects that have identity (dicts, lists, instances, callables,         *)
(* contexts) live in a fixed heap and are referred to by id.               *)
(***************************************************************************)
EXTENDS Integers, Sequences, FiniteSets, TLC

VARIABLES
    dicts,              \* context.dicts: the frames of the bound Context, bottom first
    string_if_invalid,  \* context.template.engine.string_if_invalid
    lookups,            \* Variable.lookups of the variable being resolved
    bitIdx,             \* number of segments of `lookups` already walked
    current,            \* `current` of Variable._resolve_lookup
    status,             \* "running", "returned" or "raised"
    exc,                \* the exception that left the call, [type, bit, cur]
    calls,              \* ids of the callables whose body was run, in order
    fe_var,             \* FilterExpression.var: a Variable or a constant's value
    fe_filters,         \* FilterExpression.filters: the (func, args) pairs in order
    ignore_failures,    \* the ignore_failures argument of FilterExpression.resolve
    autoescape,         \* context.autoescape
    obj,                \* `obj` of FilterExpression.resolve, the running value
    filterIdx,          \* number of filters of the chain already applied
    fstatus,            \* "start", "filtering", "resolved", "rendered" or "raised"
    fexc,               \* the exception that left resolve or render
    applied,            \* the filter calls made: [func, input, args] in order
    output,             \* what VariableNode.render returned
    var_text,           \* the `var` argument of Variable.__init__, the raw text
    cstatus,            \* "start", "compiled", or the exception that left __init__
    compiled,           \* the Variable built: literal, lookups, translate
    sig,                \* the filter callable of a filter use: its parameters and flags
    provided,           \* number of arguments the filter use provides
    astatus,            \* "start", "compiled", "called" or the exception raised
    template_string,    \* Lexer.template_string, the template source
    phase,              \* where the two tokenize calls are: "start", "lexer", "lexed",
                        \* "debug" or "done"
    split_bits,         \* tag_re.split(template_string), the list Lexer.tokenize walks
    bitNo,              \* number of bits of that list already walked
    in_tag,             \* `in_tag` of Lexer.tokenize
    lineno,             \* `lineno` of the running tokenize
    verbatim,           \* self.verbatim of the running lexer: <<>> for False, else the
                        \* text of the block that ends the verbatim region
    result,             \* `result` of Lexer.tokenize
    upto,               \* `upto` of DebugLexer.tokenize
    dresult,            \* `result` of DebugLexer.tokenize
    tokens,             \* Parser.tokens, the queue of tokens not yet consumed
    command_stack,      \* Parser.command_stack: the (command, token) of the open blocks
    parses,             \* the running calls of Parser.parse, outermost first: their
                        \* parse_until and nodelist, and the tag function that called
    pstatus,            \* "parsing", "done" or "error"
    perror,             \* the exception that left the compilation
    ctx_op,             \* the last operation called on the Context (dicts), "none" if none
    ctx_args,           \* the arguments it was called with
    ctx_raised,         \* the exception that operation raised, "none" if it returned
    ctx_ret,            \* what it returned
    pushed,             \* number of frames put on the stack above the builtins frame
    popped,             \* number of frames taken off by pop()
    frame_ids,          \* which dict objects the frames of dicts are, bottom first
    with_blocks,        \* the with-blocks entered on push() handles and not yet left
    body_exc,           \* the exception propagating out of a with-block body, or "none"
    rc_dicts,           \* context.render_context.dicts, bottom first
    rc_template,        \* context.render_context.template ("none" for None)
    ctx_template,       \* context.template ("none" for None)
    scopes,             \* the push_state scopes entered and not yet left, outermost
                        \* first, with what Template.render did on entering
    render_exc,         \* the exception propagating out of a render, or "none"
    rc_op,              \* the last call on the render context: [op, key, raised, ret]
    rc_it               \* the generator that iter(render_context) returned to the node:
                        \* whether it has started, the frame it walks and how far it is

lookupVars == <<dicts, string_if_invalid, lookups, bitIdx, current, status, exc, calls>>

filterVars == <<fe_var, fe_filters, ignore_failures, autoescape, obj, filterIdx,
                fstatus, fexc, applied, output>>

compileVars == <<var_text, cstatus, compiled>>

argVars == <<sig, provided, astatus>>

lexVars == <<template_string, phase, split_bits, bitNo, in_tag, lineno, verbatim, result, upto,
            dresult>>

parseVars == <<tokens, command_stack, parses, pstatus, perror>>

ctxVars == <<ctx_op, ctx_args, ctx_raised, ctx_ret, pushed, popped>>

withVars == <<frame_ids, with_blocks, body_exc>>

renderVars == <<rc_dicts, rc_template, ctx_template, scopes, render_exc, rc_op, rc_it>>

\* The variables of the machines other than lookup, filter and compile
laterVars == <<argVars, lexVars, parseVars, ctxVars, withVars, renderVars>>

\* What each of those machines leaves alone
restOfArgs == <<lookupVars, filterVars, compileVars, lexVars, parseVars, ctxVars, withVars, renderVars>>
restOfLex == <<lookupVars, filterVars, compileVars, argVars, parseVars, ctxVars, withVars, renderVars>>
restOfParse == <<lookupVars, filterVars, compileVars, argVars, lexVars, ctxVars, withVars, renderVars>>
restOfWith == <<string_if_invalid, lookups, bitIdx, current, status, exc, calls, filterVars,
               compileVars, argVars, lexVars, parseVars, renderVars>>
restOfRender == <<lookupVars, filterVars, compileVars, argVars, lexVars, parseVars, ctxVars,
                  withVars>>
restOfCtx == <<restOfWith, withVars>>

vars == <<lookupVars, filterVars, compileVars, laterVars>>

---------------------------------------------------------------------------
(* Bounds *)

MaxPath == 3
MaxFilters == 2
MaxText == 4
MaxParams == 3
MaxPieces == 3
MaxTokens == 4
MaxPushes == 2
MaxScopes == 2

---------------------------------------------------------------------------
(* Values *)

StrV(s, safe) == [kind |-> "str", s |-> s, safe |-> safe, id |-> "", n |-> 0]
NoneV == [kind |-> "none", s |-> <<>>, safe |-> FALSE, id |-> "", n |-> 0]
IntV(n) == [kind |-> "int", s |-> <<>>, safe |-> FALSE, id |-> "", n |-> n]
BoolV(b) == [kind |-> "bool", s |-> <<>>, safe |-> FALSE, id |-> "", n |-> IF b THEN 1 ELSE 0]
Ref(id) == [kind |-> "ref", s |-> <<>>, safe |-> FALSE, id |-> id, n |-> 0]

EmptyMap == [k \in {} |-> NoneV]

\* BaseContext._reset_dicts: the builtins frame
builtins == ("True" :> BoolV(TRUE) @@ "False" :> BoolV(FALSE) @@ "None" :> NoneV)

\* An attribute slot: what getattr(obj, name) does.
\*   "value"          returns v
\*   "AttributeError" the attribute exists (it is in dir(obj)) but its getter raises AttributeError
\*   "SilentError"    its getter raises an exception with silent_variable_failure = True
\*   "Error"          its getter raises any other exception
Slot(get, v) == [get |-> get, v |-> v]

BaseObj == [type |-> "object", keys |-> EmptyMap, items |-> <<>>,
            attrs |-> [k \in {} |-> Slot("value", NoneV)], frames |-> <<>>,
            dnc |-> FALSE, alters |-> FALSE, beh |-> "", ret |-> NoneV]

\* A callable.  dnc = do_not_call_in_templates, alters = alters_data; beh is what
\* calling it with no arguments does:
\*   "ret"        returns ret
\*   "needs_args" the call raises TypeError because arguments are required
\*   "TypeError"  its body raises TypeError (no argument is required)
\*   "SilentError" its body raises an exception with silent_variable_failure = True
\*   "Error"      its body raises any other exception
Func(dnc, alters, beh, ret) ==
    [BaseObj EXCEPT !.type = "function", !.dnc = dnc, !.alters = alters,
                    !.beh = beh, !.ret = ret]

FuncIds == {"f_ret", "f_dnc", "f_alters", "f_both", "f_needs_args",
            "f_type_error", "f_silent", "f_error", "f_method"}

\* The objects reachable from a context in this model.
Heap(id) ==
    CASE id = "d_ab" -> [BaseObj EXCEPT !.type = "dict", !.keys = ("b" :> Ref("l_nums"))]
      [] id = "l_nums" -> [BaseObj EXCEPT !.type = "list", !.items = <<IntV(10), IntV(20)>>]
      [] id = "o_shadow" ->
            \* a mapping-like instance: key "b" and attribute "b" both exist
            [BaseObj EXCEPT !.keys = ("b" :> StrV(<<"k">>, FALSE)),
                            !.attrs = ("b" :> Slot("value", StrV(<<"t">>, FALSE))
                                       @@ "a" :> Slot("value", Ref("f_alters")))]
      [] id = "o_attr" ->
            [BaseObj EXCEPT !.attrs = ("a" :> Slot("value", Ref("f_ret"))
                                       @@ "b" :> Slot("value", Ref("f_dnc"))
                                       @@ "0" :> Slot("value", StrV(<<"z">>, TRUE)))]
      [] id = "o_prop" ->
            [BaseObj EXCEPT !.attrs = ("a" :> Slot("SilentError", NoneV)
                                       @@ "b" :> Slot("AttributeError", NoneV)
                                       @@ "0" :> Slot("Error", NoneV))]
      [] id = "c_inner" ->
            [BaseObj EXCEPT !.type = "Context",
                            !.frames = <<builtins, ("b" :> StrV(<<"i">>, FALSE))>>]
      [] id = "rc" ->
            [BaseObj EXCEPT !.type = "RenderContext",
                            !.frames = <<builtins, ("b" :> StrV(<<"r">>, FALSE))>>]
      [] id = "f_ret" -> Func(FALSE, FALSE, "ret", Ref("d_ab"))
      [] id = "f_dnc" -> Func(TRUE, FALSE, "ret", Ref("d_ab"))
      [] id = "f_alters" -> Func(FALSE, TRUE, "ret", Ref("d_ab"))
      [] id = "f_both" -> Func(TRUE, TRUE, "ret", Ref("d_ab"))
      [] id = "f_needs_args" -> Func(FALSE, FALSE, "needs_args", NoneV)
      [] id = "f_type_error" -> Func(FALSE, FALSE, "TypeError", NoneV)
      [] id = "f_silent" -> Func(FALSE, FALSE, "SilentError", NoneV)
      [] id = "f_error" -> Func(FALSE, FALSE, "Error", NoneV)
      [] id = "f_method" -> Func(FALSE, FALSE, "ret", NoneV)

\* The environment of a lookup: the bound context's frames and the engine's
\* string_if_invalid.  The id "context" is the Context the lookup starts from.
Env(d, sii) == [dicts |-> d, string_if_invalid |-> sii]

Obj(id, env) ==
    IF id = "context"
    THEN [BaseObj EXCEPT !.type = "Context", !.frames = env.dicts]
    ELSE Heap(id)

IsContext(o) == o.type \in {"Context", "RenderContext"}

\* Attributes of the context classes, as getattr(type(current), bit) sees them:
\* name -> truth value of the attribute.  The methods are truthy;
\* RenderContext.template is the class attribute None.
ClassAttrs(type) ==
    IF type = "RenderContext"
    THEN ("push" :> TRUE @@ "flatten" :> TRUE @@ "template" :> FALSE)
    ELSE ("push" :> TRUE @@ "flatten" :> TRUE)

\* getattr(current, bit) on a context whose class defines bit
ClassAttrValue(type, bit) ==
    IF ClassAttrs(type)[bit] THEN Ref("f_method") ELSE NoneV

---------------------------------------------------------------------------
(* Context lookup: django/template/context.py *)

Found(v) == [ok |-> TRUE, v |-> v]
Miss == [ok |-> FALSE, v |-> NoneV]

RECURSIVE FrameScan(_, _, _)
FrameScan(frames, key, i) ==
    IF i = 0 THEN Miss
    ELSE IF key \in DOMAIN frames[i] THEN Found(frames[i][key])
    ELSE FrameScan(frames, key, i - 1)

\* The loop of BaseContext.get: d[key] of the first frame, from the top,
\* that has the key, else `otherwise`
RECURSIVE FrameOrElse(_, _, _, _)
FrameOrElse(frames, key, i, otherwise) ==
    IF i = 0 THEN otherwise
    ELSE IF key \in DOMAIN frames[i] THEN frames[i][key]
    ELSE FrameOrElse(frames, key, i - 1, otherwise)

\* BaseContext.__getitem__ scanning the frames from the bottom up
RECURSIVE FrameScanUp(_, _, _)
FrameScanUp(frames, key, i) ==
    IF i > Len(frames) THEN Miss
    ELSE IF key \in DOMAIN frames[i] THEN Found(frames[i][key])
    ELSE FrameScanUp(frames, key, i + 1)

BaseContext_getitem_BottomUp(frames, key) == FrameScanUp(frames, key, 1)

\* BaseContext.__getitem__: the frames are scanned from the top down
BaseContext_getitem(frames, key) == FrameScan(frames, key, Len(frames))

\* RenderContext.__getitem__ scanning every frame, as BaseContext does
RenderContext_getitem_Scan(frames, key) == FrameScan(frames, key, Len(frames))

\* RenderContext.__getitem__: only the top frame is consulted
RenderContext_getitem(frames, key) ==
    IF key \in DOMAIN frames[Len(frames)] THEN Found(frames[Len(frames)][key]) ELSE Miss

-------------------------------------------------------------------------------------------------------------------------------------------------
(* Variable._resolve_lookup: django/template/base.py *)

\* int(bit): the segments that are integer literals, and their values
DigitVal == ("0" :> 0 @@ "1" :> 1 @@ "2" :> 2)
IsIntLiteral(bit) == bit \in DOMAIN DigitVal
IntOf(bit) == DigitVal[bit]

\* o[bit] with the segment as a string key, by the type of o
GetItemOf(o, bit) ==
    CASE o.type = "Context" -> BaseContext_getitem(o.frames, bit)
      [] o.type = "RenderContext" -> RenderContext_getitem(o.frames, bit)
      [] o.type \in {"dict", "object"} ->
            IF bit \in DOMAIN o.keys THEN Found(o.keys[bit]) ELSE Miss
      [] OTHER -> Miss

\* current[bit]; a miss is one of the exceptions caught on line 893
GetItem(cur, bit, env) ==
    IF cur.kind # "ref" THEN Miss ELSE GetItemOf(Obj(cur.id, env), bit)

\* Lines 896-898 on an object.  On a context, getattr(type(current), bit)
\* raises AttributeError itself when the class has no such attribute, and the
\* guard raises it when the class attribute is truthy; "missing" is that
\* AttributeError.
GetAttrOf(o, bit) ==
    IF IsContext(o)
    THEN IF bit \notin DOMAIN ClassAttrs(o.type) \/ ClassAttrs(o.type)[bit]
         THEN Slot("missing", NoneV)
         ELSE Slot("value", ClassAttrValue(o.type, bit))
    ELSE IF bit \in DOMAIN o.attrs THEN o.attrs[bit] ELSE Slot("missing", NoneV)

\* getattr(current, bit) under the guard of line 896
GetAttr(cur, bit, env) ==
    IF cur.kind # "ref" THEN Slot("missing", NoneV) ELSE GetAttrOf(Obj(cur.id, env), bit)

\* o[n] on an object
GetIndexOf(o, n) ==
    IF o.type = "list" /\ n < Len(o.items) THEN Found(o.items[n + 1]) ELSE Miss

\* current[int(bit)]
GetIndex(cur, n, env) ==
    CASE cur.kind = "str" ->
            IF n < Len(cur.s) THEN Found(StrV(<<cur.s[n + 1]>>, FALSE)) ELSE Miss
      [] cur.kind = "ref" -> GetIndexOf(Obj(cur.id, env), n)
      [] OTHER -> Miss

Outcome(out, v) == [out |-> out, v |-> v]

\* SegmentPick with the attribute tried before the key
SegmentPick_AttrFirst(k, a, i) ==
    CASE a.get = "value" -> Outcome("value", a.v)
      [] k.ok -> Outcome("value", k.v)
      [] a.get = "AttributeError" -> Outcome("AttributeError", NoneV)
      [] a.get \in {"SilentError", "Error"} -> Outcome(a.get, NoneV)
      [] OTHER -> IF i.ok THEN Outcome("value", i.v)
                  ELSE Outcome("VariableDoesNotExist", NoneV)

\* Lines 889-912: the order of the three accesses.  k, a and i are the
\* outcomes of key, attribute and index access; out is "value" or the type
\* of the exception raised.
SegmentPick(k, a, i) ==
    IF k.ok THEN Outcome("value", k.v)
    ELSE CASE a.get = "value" -> Outcome("value", a.v)
           [] a.get = "AttributeError" -> Outcome("AttributeError", NoneV)
           [] a.get \in {"SilentError", "Error"} -> Outcome(a.get, NoneV)
           [] OTHER -> IF i.ok THEN Outcome("value", i.v)
                       ELSE Outcome("VariableDoesNotExist", NoneV)

\* current[int(bit)], with int(bit) raising ValueError for a non-number
IndexAccess(cur, bit, env) ==
    IF IsIntLiteral(bit) THEN GetIndex(cur, IntOf(bit), env) ELSE Miss

\* Lines 889-912: one segment against the current value
SegmentLookup(cur, bit, env) ==
    SegmentPick(GetItem(cur, bit, env), GetAttr(cur, bit, env), IndexAccess(cur, bit, env))

IsCallable(v) == v.kind = "ref" /\ v.id \in FuncIds

CallOutcome(out, v, called) == [out |-> out, v |-> v, called |-> called]

\* CallFunc without the alters_data gate: the callable is called
CallFunc_AltersCalled(f, v, env) ==
    IF f.dnc THEN CallOutcome("value", v, <<>>)
    ELSE CASE f.beh = "ret" -> CallOutcome("value", f.ret, <<v.id>>)
           [] f.beh = "needs_args" -> CallOutcome("value", env.string_if_invalid, <<>>)
           [] OTHER -> CallOutcome(f.beh, NoneV, <<v.id>>)

\* CallFunc that re-raises the TypeError of a call that lacked arguments
CallFunc_NeedsArgsRaises(f, v, env) ==
    IF f.dnc THEN CallOutcome("value", v, <<>>)
    ELSE IF f.alters THEN CallOutcome("value", env.string_if_invalid, <<>>)
    ELSE CASE f.beh = "ret" -> CallOutcome("value", f.ret, <<v.id>>)
           [] f.beh = "needs_args" -> CallOutcome("TypeError", NoneV, <<>>)
           [] OTHER -> CallOutcome(f.beh, NoneV, <<v.id>>)

\* Lines 916-939: the callable f, which is the value v.  called lists the
\* callable when its body was run.
CallFunc(f, v, env) ==
    IF f.dnc THEN CallOutcome("value", v, <<>>)
    ELSE IF f.alters THEN CallOutcome("value", env.string_if_invalid, <<>>)
    ELSE CASE f.beh = "ret" -> CallOutcome("value", f.ret, <<v.id>>)
           [] f.beh = "needs_args" -> CallOutcome("value", env.string_if_invalid, <<>>)
           [] OTHER -> CallOutcome(f.beh, NoneV, <<v.id>>)

\* Lines 914-939: what becomes of the segment's value when it is callable
CallStep(v, env) ==
    IF ~IsCallable(v) THEN CallOutcome("value", v, <<>>)
    ELSE CallFunc(Heap(v.id), v, env)

NoExc == [type |-> "none", bit |-> "", cur |-> NoneV]

LookupState(cur, st, e, cs) == [current |-> cur, status |-> st, exc |-> e, calls |-> cs]

\* The end of one iteration with c the outcome of the segment and its call:
\* the loop goes on, or the handler of lines 940-952 returns
\* string_if_invalid (silent failure) or re-raises.
AfterCall(st, bit, env, c) ==
    CASE c.out = "value" -> LookupState(c.v, "running", NoExc, st.calls \o c.called)
      [] c.out = "SilentError" ->
            LookupState(env.string_if_invalid, "returned", NoExc, st.calls \o c.called)
      [] c.out = "VariableDoesNotExist" ->
            LookupState(st.current, "raised",
                        [type |-> c.out, bit |-> bit, cur |-> st.current],
                        st.calls \o c.called)
      [] OTHER ->
            LookupState(st.current, "raised",
                        [type |-> c.out, bit |-> bit, cur |-> NoneV],
                        st.calls \o c.called)

\* Lines 913-939 after the segment's outcome seg
AfterSegment(seg, env) ==
    IF seg.out = "value" THEN CallStep(seg.v, env)
    ELSE CallOutcome(seg.out, NoneV, <<>>)

\* One iteration of the loop of lines 888-939 under the handler of lines
\* 940-952.
LookupBit(st, bit, env) ==
    AfterCall(st, bit, env, AfterSegment(SegmentLookup(st.current, bit, env), env))

RECURSIVE Walk(_, _, _, _)
Walk(st, bits, i, env) ==
    IF st.status # "running" THEN st
    ELSE IF i > Len(bits) THEN [st EXCEPT !.status = "returned"]
    ELSE Walk(LookupBit(st, bits[i], env), bits, i + 1, env)

\* Variable._resolve_lookup as a function of the path and the environment
_resolve_lookup(bits, env) ==
    Walk(LookupState(Ref("context"), "running", NoExc, <<>>), bits, 1, env)

---------------------------------------------------------------------------
(* The lookup machine: Variable.resolve of a lookup variable, one segment  *)
(* per step.                                                               *)

Bits == {"a", "b", "0", "push", "template"}

Paths == UNION {[1..n -> Bits] : n \in 1..MaxPath}

\* What the context may hold under the name "a"
Pool == {NoneV, StrV(<<>>, FALSE), StrV(<<"x", "<">>, FALSE), StrV(<<"<", "b", ">">>, TRUE)}
        \cup {Ref(id) : id \in {"d_ab", "l_nums", "o_shadow", "o_attr", "o_prop",
                                "c_inner", "rc"} \cup (FuncIds \ {"f_method"})}

\* engine.string_if_invalid: '' (the default), None, or a text
InvalidStrings == {StrV(<<>>, FALSE), NoneV, StrV(<<"N", "/", "A">>, FALSE),
                   StrV(<<"%", "s", "?">>, FALSE)}

ContextFrames == {<<builtins>>} \cup {<<builtins, ("a" :> v)>> : v \in Pool}

\* No filter expression is being resolved
FilterIdle ==
    /\ fe_var = NoneV
    /\ fe_filters = <<>>
    /\ ignore_failures = FALSE
    /\ autoescape = TRUE
    /\ obj = NoneV
    /\ filterIdx = 0
    /\ fstatus = "idle"
    /\ fexc = NoExc
    /\ applied = <<>>
    /\ output = NoneV

\* A Variable: lookups is None when haslookups is false, literal is None when
\* it is NoneV; text is the raw text, what str(variable) gives
VariableRec(haslookups, bits, literal, text, translate) ==
    [haslookups |-> haslookups, lookups |-> bits, literal |-> literal, text |-> text,
     translate |-> translate]

\* No Variable is being compiled
CompileIdle ==
    /\ var_text = <<>>
    /\ cstatus = "idle"
    /\ compiled = VariableRec(FALSE, <<>>, NoneV, <<>>, FALSE)

\* A filter callable as getfullargspec sees it: alen parameters of which the
\* last dlen have defaults, *args or not; auto: the callable is flagged
\* needs_autoescape and its last parameter is `autoescape`
Signature(alen, dlen, varargs, auto) ==
    [alen |-> alen, dlen |-> dlen, varargs |-> varargs, auto |-> auto]

\* No filter use is being checked
ArgsIdle ==
    /\ sig = Signature(1, 0, FALSE, FALSE)
    /\ provided = 0
    /\ astatus = "idle"

\* No source is being tokenized
LexIdle ==
    /\ template_string = <<>>
    /\ phase = "idle"
    /\ split_bits = <<>>
    /\ bitNo = 0
    /\ in_tag = FALSE
    /\ lineno = 1
    /\ verbatim = <<>>
    /\ result = <<>>
    /\ upto = 0
    /\ dresult = <<>>

\* No exception
NoError == [kind |-> "none", command |-> <<>>, lineno |-> 0, expected |-> <<>>,
            token |-> <<>>]

\* No token list is being parsed
ParseIdle ==
    /\ tokens = <<>>
    /\ command_stack = <<>>
    /\ parses = <<>>
    /\ pstatus = "idle"
    /\ perror = NoError

\* No operation has been called on the Context
CtxIdle ==
    /\ ctx_op = "none"
    /\ ctx_args = <<>>
    /\ ctx_raised = "none"
    /\ ctx_ret = NoneV
    /\ pushed = 0
    /\ popped = 0

\* No with-block is open
WithIdle ==
    /\ frame_ids = <<>>
    /\ with_blocks = <<>>
    /\ body_exc = "none"

\* A call on the render context: the key asked for or written, the exception
\* raised and the value returned
RcCall(op, key, raised, ret) == [op |-> op, key |-> key, raised |-> raised, ret |-> ret]

\* A generator of RenderContext.__iter__: state "none" (no call yet), "created"
\* (called, body not yet entered), "started" or "done"; once started, the
\* dict it walks (its place in the stack, or the dict itself when it has
\* been popped and idx is 0), and the dict iterator's di_used and di_pos
Generator(state, idx, frame, used, pos) ==
    [state |-> state, idx |-> idx, frame |-> frame, used |-> used, pos |-> pos]

NoIter == Generator("none", 0, EmptyMap, 0, 0)

\* No template is being rendered
RenderIdle ==
    /\ rc_dicts = <<>>
    /\ rc_template = "none"
    /\ ctx_template = "none"
    /\ scopes = <<>>
    /\ render_exc = "none"
    /\ rc_op = RcCall("none", "", "none", NoneV)
    /\ rc_it = NoIter

LaterIdle == ArgsIdle /\ LexIdle /\ ParseIdle /\ CtxIdle /\ WithIdle /\ RenderIdle

LookupInit ==
    /\ FilterIdle
    /\ CompileIdle
    /\ LaterIdle
    /\ dicts \in ContextFrames
    /\ string_if_invalid \in InvalidStrings
    /\ lookups \in Paths
    /\ bitIdx = 0
    /\ current = Ref("context")
    /\ status = "running"
    /\ exc = NoExc
    /\ calls = <<>>

SetLookupState(st) ==
    /\ current' = st.current
    /\ status' = st.status
    /\ exc' = st.exc
    /\ calls' = st.calls

ResolveBit ==
    /\ status = "running"
    /\ bitIdx < Len(lookups)
    /\ SetLookupState(LookupBit(LookupState(current, status, exc, calls),
                                lookups[bitIdx + 1], Env(dicts, string_if_invalid)))
    /\ bitIdx' = bitIdx + 1
    /\ UNCHANGED <<dicts, string_if_invalid, lookups, filterVars, compileVars, laterVars>>

ResolveReturn ==
    /\ status = "running"
    /\ bitIdx = Len(lookups)
    /\ status' = "returned"
    /\ UNCHANGED <<dicts, string_if_invalid, lookups, bitIdx, current, exc, calls, filterVars,
                   compileVars, laterVars>>

LookupNext == ResolveBit \/ ResolveReturn

SpecLookup == LookupInit /\ [][LookupNext]_vars

---------------------------------------------------------------------------
(* Properties of the lookup machine *)

Stepping == status = "running" /\ bitIdx < Len(lookups)
CurBit == lookups[bitIdx + 1]
CurEnv == Env(dicts, string_if_invalid)
Flagged(id) == Heap(id).dnc \/ Heap(id).alters

\* The segment's value is v: unless v is callable (then the call rules
\* decide), v is the new current value and the walk goes on.
Taken(v) == IsCallable(v) \/ (current' = v /\ status' = "running" /\ calls' = calls)

\* A flagged callable v as a segment's value is not called: do-not-call (tested
\* first) leaves it in place, alters-data puts string_if_invalid in its place.
FlaggedLeft(v) ==
    /\ calls' = calls
    /\ status' = "running"
    /\ current' = IF Heap(v.id).dnc THEN v ELSE string_if_invalid

FlaggedRule(seg) ==
    (seg.out = "value" /\ IsCallable(seg.v) /\ Flagged(seg.v.id)) => FlaggedLeft(seg.v)

\* C3: a callable flagged do_not_call_in_templates or alters_data is never
\* invoked during Variable.resolve.  The body of no flagged callable is ever
\* run; when a segment yields a flagged callable, a do-not-call callable stays
\* as the segment's value and an alters-data callable (not also flagged
\* do-not-call, which is tested first) is replaced by string_if_invalid.
C3_FlaggedNeverCalled ==
    /\ [](\A i \in 1..Len(calls) : ~Flagged(calls[i]))
    /\ [][Stepping => FlaggedRule(SegmentLookup(current, CurBit, CurEnv))]_vars

\* C3 witness: the path a.a on an object whose attribute a is an alters-data
\* callable has put the fallback in its place, with nothing called.
C3_Witness ==
    /\ Len(dicts) = 2 /\ dicts[2]["a"] = Ref("o_shadow")
    /\ lookups = <<"a", "a">> /\ bitIdx = 2 /\ status = "running"
    /\ string_if_invalid = StrV(<<"N", "/", "A">>, FALSE)
    /\ current = string_if_invalid /\ calls = <<>>

RaisedVDNE ==
    /\ status' = "raised"
    /\ exc' = [type |-> "VariableDoesNotExist", bit |-> CurBit, cur |-> current]

OrderAsClaimed(k, a, i) ==
    CASE k.ok -> Taken(k.v)
      [] a.get = "value" -> Taken(a.v)
      [] a.get \in {"SilentError", "Error"} -> TRUE
      [] i.ok -> Taken(i.v)
      [] OTHER -> RaisedVDNE

OrderAmended(k, a, i) ==
    CASE k.ok -> Taken(k.v)
      [] a.get = "value" -> Taken(a.v)
      [] a.get \in {"SilentError", "Error"} -> TRUE
      [] a.get = "AttributeError" -> status' = "raised" /\ exc'.type = "AttributeError"
      [] i.ok -> Taken(i.v)
      [] OTHER -> RaisedVDNE

\* C6 as stated: key, then attribute, then index access, the first that
\* succeeds is taken, and when none succeeds VariableDoesNotExist is raised
\* with the segment and the current value.
C6_Original ==
    [][Stepping => OrderAsClaimed(GetItem(current, CurBit, CurEnv),
                                  GetAttr(current, CurBit, CurEnv),
                                  IndexAccess(current, CurBit, CurEnv))]_vars

\* C6 amended: key, then attribute, then index access, the first that succeeds
\* is taken; an AttributeError raised by the getter of an attribute the value
\* does have is re-raised as it is, without index access being tried; when
\* the key and the attribute are missing and index access fails,
\* VariableDoesNotExist is raised with the segment and the current value.
C6_LookupOrder ==
    [][Stepping => OrderAmended(GetItem(current, CurBit, CurEnv),
                                GetAttr(current, CurBit, CurEnv),
                                IndexAccess(current, CurBit, CurEnv))]_vars

\* C6 witness: a.b.0 on {'a': {'b': [10, 20]}} has yielded 10.
C6_Witness ==
    /\ Len(dicts) = 2 /\ dicts[2]["a"] = Ref("d_ab")
    /\ lookups = <<"a", "b", "0">> /\ bitIdx = 3
    /\ status = "running" /\ current = IntV(10)

KeyInSomeFrame(frames, key) == \E i \in 1..Len(frames) : key \in DOMAIN frames[i]

\* C7: when the current value is a context and the segment is a key of none
\* of its frames, the lookup fails with VariableDoesNotExist (no attribute of
\* the context's class is returned).
C7_NoClassAttribute ==
    [][(Stepping /\ current.kind = "ref" /\ IsContext(Obj(current.id, CurEnv))
          /\ ~KeyInSomeFrame(Obj(current.id, CurEnv).frames, CurBit)) =>
            /\ status' = "raised"
            /\ exc'.type = "VariableDoesNotExist"]_vars

CallRule(f, id) ==
    CASE f.beh = "ret" ->
            current' = f.ret /\ status' = "running" /\ calls' = Append(calls, id)
      [] f.beh = "needs_args" ->
            current' = string_if_invalid /\ status' = "running"
      [] f.beh = "SilentError" ->
            current' = string_if_invalid /\ status' = "returned" /\ exc' = NoExc
      [] OTHER ->
            status' = "raised" /\ exc'.type = f.beh

UnflaggedRule(seg) ==
    (seg.out = "value" /\ IsCallable(seg.v) /\ ~Flagged(seg.v.id)) =>
        CallRule(Heap(seg.v.id), seg.v.id)

\* C9: an unflagged callable is called with no arguments.  Its return value
\* becomes the segment's value; when the call fails for lack of arguments the
\* segment's value is string_if_invalid and the walk goes on; an exception
\* marked silent_variable_failure ends the lookup with string_if_invalid;
\* any other exception leaves the lookup as it is.
C9_CallOutcome ==
    [][Stepping => UnflaggedRule(SegmentLookup(current, CurBit, CurEnv))]_vars

\* C9 witness: a callable that needs arguments was reached by a.0, the
\* fallback became the segment's value, and the walk went on to index it.
C9_Witness ==
    /\ Len(dicts) = 2 /\ dicts[2]["a"] = Ref("f_needs_args")
    /\ string_if_invalid = StrV(<<"N", "/", "A">>, FALSE)
    /\ lookups = <<"a", "0">> /\ bitIdx = 2
    /\ status = "running" /\ current = StrV(<<"N">>, FALSE) /\ calls = <<>>

---------------------------------------------------------------------------
(* Text: str(), SafeData and HTML escaping *)

\* `if string_if_invalid:` on a str or None
Truthy(v) == v.kind = "str" /\ Len(v.s) > 0

DigitChars == <<"0", "1", "2", "3", "4", "5", "6", "7", "8", "9">>

RECURSIVE IntToStr(_)
IntToStr(n) ==
    IF n < 10 THEN <<DigitChars[n + 1]>>
    ELSE IntToStr(n \div 10) \o <<DigitChars[(n % 10) + 1]>>

\* str(value)
PyStr(v) ==
    CASE v.kind = "str" -> v.s
      [] v.kind = "none" -> <<"N", "o", "n", "e">>
      [] v.kind = "int" -> IntToStr(v.n)
      [] v.kind = "bool" -> IF v.n = 1 THEN <<"T", "r", "u", "e">>
                            ELSE <<"F", "a", "l", "s", "e">>
      [] OTHER -> <<"<", v.id, ">">>

\* mark_safe(value)
mark_safe(v) == IF v.kind = "str" THEN StrV(v.s, TRUE) ELSE StrV(PyStr(v), TRUE)

\* django.utils.html.escape, one character
EscapeChar(c) ==
    CASE c = "&" -> <<"&", "a", "m", "p", ";">>
      [] c = "<" -> <<"&", "l", "t", ";">>
      [] c = ">" -> <<"&", "g", "t", ";">>
      [] c = "\"" -> <<"&", "q", "u", "o", "t", ";">>
      [] c = "'" -> <<"&", "#", "3", "9", ";">>
      [] OTHER -> <<c>>

RECURSIVE Escape(_)
Escape(s) == IF s = <<>> THEN <<>> ELSE EscapeChar(Head(s)) \o Escape(Tail(s))

\* django.utils.html.conditional_escape: SafeData is returned as it is
conditional_escape(v) == IF v.safe THEN v ELSE StrV(Escape(v.s), TRUE)

\* django.utils.formats.localize: text is returned as it is, a bool as its
\* str, an integer formatted by number_format, which without grouping gives
\* mark_safe(number); any other value as it is
localize(value) ==
    CASE value.kind = "bool" -> StrV(PyStr(value), FALSE)
      [] value.kind = "int" -> mark_safe(value)
      [] OTHER -> value

\* str(value) as a value: text keeps its marking (SafeText.__str__ returns
\* self)
StrOf(value) == IF value.kind = "str" THEN value ELSE StrV(PyStr(value), FALSE)

\* render_value_in_context that escapes whatever the marking
render_value_in_context_EscapeAll(value, autoesc) ==
    IF autoesc THEN StrV(Escape(PyStr(value)), TRUE)
    ELSE StrOf(localize(value))

\* render_value_in_context (lines 1042-1056); template_localtime leaves
\* every value that is no datetime as it is
render_value_in_context(value, autoesc) ==
    IF autoesc THEN conditional_escape(StrOf(localize(value)))
    ELSE StrOf(localize(value))

LowerLetters == <<"a", "b", "c", "d", "e", "f", "g", "h", "i", "j", "k", "l", "m",
                  "n", "o", "p", "q", "r", "s", "t", "u", "v", "w", "x", "y", "z">>
UpperLetters == <<"A", "B", "C", "D", "E", "F", "G", "H", "I", "J", "K", "L", "M",
                  "N", "O", "P", "Q", "R", "S", "T", "U", "V", "W", "X", "Y", "Z">>

IndexIn(c, letters) == CHOOSE i \in 1..Len(letters) : letters[i] = c
IsIn(c, letters) == \E i \in 1..Len(letters) : letters[i] = c

UpperChar(c) == IF IsIn(c, LowerLetters) THEN UpperLetters[IndexIn(c, LowerLetters)] ELSE c
LowerChar(c) == IF IsIn(c, UpperLetters) THEN LowerLetters[IndexIn(c, UpperLetters)] ELSE c

\* str.upper and str.lower
Upper(s) == [i \in 1..Len(s) |-> UpperChar(s[i])]
Lower(s) == [i \in 1..Len(s) |-> LowerChar(s[i])]

\* Index of the first "%s" of fmt, 0 when there is none
Placeholder(fmt) ==
    IF \E i \in 1..(Len(fmt) - 1) : fmt[i] = "%" /\ fmt[i + 1] = "s"
    THEN CHOOSE i \in 1..(Len(fmt) - 1) :
            /\ fmt[i] = "%" /\ fmt[i + 1] = "s"
            /\ \A j \in 1..(i - 1) : ~(fmt[j] = "%" /\ fmt[j + 1] = "s")
    ELSE 0

FormatAt(fmt, text, i) == SubSeq(fmt, 1, i - 1) \o text \o SubSeq(fmt, i + 2, Len(fmt))

\* fmt % text for a format with one %s
Format(fmt, text) == FormatAt(fmt, text, Placeholder(fmt))

---------------------------------------------------------------------------
(* Variables and registered filters *)

\* A compiled Variable: a lookup path or a literal
LookupVar(bits, text) == VariableRec(TRUE, bits, NoneV, text, FALSE)
LiteralVar(v, text) == VariableRec(FALSE, <<>>, v, text, FALSE)

\* Variable.resolve (lines 846-863) of a variable that is not to be translated
Variable_resolve(var, env) ==
    IF var.haslookups THEN _resolve_lookup(var.lookups, env)
    ELSE LookupState(var.literal, "returned", NoExc, <<>>)

\* FilterExpression.var: a Variable, or the value of a constant
VarBase(var) == [isvar |-> TRUE, var |-> var, value |-> NoneV]
ConstBase(v) == [isvar |-> FALSE, var |-> LiteralVar(NoneV, <<>>), value |-> v]

\* A filter argument (lookup, arg): a Variable to resolve, or a constant's value
LookupArg(var) == [lookup |-> TRUE, var |-> var, value |-> NoneV]
ConstArg(v) == [lookup |-> FALSE, var |-> LiteralVar(NoneV, <<>>), value |-> v]

\* The registered filters: their flags
\*   upper  lambda v: str(v).upper()
\*   lower  lambda v: str(v).lower()                              is_safe
\*   add    lambda v, a: '%s%s' % (v, a)
\*   safe   lambda v: mark_safe(v)                                is_safe
\*   esc    lambda v, autoescape=True:
\*              mark_safe(escape(v)) if autoescape else v         needs_autoescape
\*   boom   raises UnicodeDecodeError
FilterFlags(func) ==
    [is_safe |-> func \in {"lower", "safe"}, needs_autoescape |-> func = "esc"]

\* lower as str.upper: a filter function swapped for another
FilterFn_Swapped(func, v, args, autoesc) ==
    CASE func = "lower" -> Outcome("value", StrV(Upper(PyStr(v)), FALSE))
      [] func = "upper" -> Outcome("value", StrV(Lower(PyStr(v)), FALSE))
      [] func = "add" -> Outcome("value", StrV(PyStr(args[1]) \o PyStr(v), FALSE))
      [] func = "safe" -> Outcome("value", mark_safe(v))
      [] func = "esc" -> Outcome("value", v)
      [] OTHER -> Outcome("UnicodeDecodeError", NoneV)

\* func(obj, *arg_vals), with autoescape=context.autoescape for esc
FilterFn(func, v, args, autoesc) ==
    CASE func = "upper" -> Outcome("value", StrV(Upper(PyStr(v)), FALSE))
      [] func = "lower" -> Outcome("value", StrV(Lower(PyStr(v)), FALSE))
      [] func = "add" -> Outcome("value", StrV(PyStr(v) \o PyStr(args[1]), FALSE))
      [] func = "safe" -> Outcome("value", mark_safe(v))
      [] func = "esc" -> Outcome("value", IF autoesc THEN StrV(Escape(PyStr(v)), TRUE) ELSE v)
      [] OTHER -> Outcome("UnicodeDecodeError", NoneV)

---------------------------------------------------------------------------
(* FilterExpression.resolve and VariableNode.render: django/template/base.py *)

FilterState(o, st, e) == [obj |-> o, fstatus |-> st, fexc |-> e]

\* The VariableDoesNotExist handler of lines 721-732, in which a missing
\* base variable without fallback raises to the caller
OnMissing_Raises(var, ign, sii, e) ==
    IF ign THEN FilterState(NoneV, "filtering", NoExc)
    ELSE IF Truthy(sii)
    THEN IF Placeholder(sii.s) > 0
         THEN FilterState(StrV(Format(sii.s, var.text), FALSE), "resolved", NoExc)
         ELSE FilterState(sii, "resolved", NoExc)
    ELSE FilterState(NoneV, "raised", e)

\* The VariableDoesNotExist handler of lines 721-732: None under
\* ignore_failures; else a truthy string_if_invalid is returned at once
\* (formatted with the variable's text when it holds %s), the filters not
\* applied; else obj is string_if_invalid ('' or None) and the chain goes on
OnMissing(var, ign, sii, e) ==
    IF ign THEN FilterState(NoneV, "filtering", NoExc)
    ELSE IF Truthy(sii)
    THEN IF Placeholder(sii.s) > 0
         THEN FilterState(StrV(Format(sii.s, var.text), FALSE), "resolved", NoExc)
         ELSE FilterState(sii, "resolved", NoExc)
    ELSE FilterState(sii, "filtering", NoExc)

\* Lines 719-732 with the value substituted for a missing base always going
\* on to the filters
AfterBase_FallbackFiltered(r, var, ign, sii) ==
    IF r.status = "returned" THEN FilterState(r.current, "filtering", NoExc)
    ELSE IF r.exc.type = "VariableDoesNotExist"
    THEN FilterState(OnMissing(var, ign, sii, r.exc).obj, "filtering", NoExc)
    ELSE FilterState(NoneV, "raised", r.exc)

\* Lines 719-732 with r the outcome of self.var.resolve(context); an
\* exception other than VariableDoesNotExist leaves resolve
AfterBase(r, var, ign, sii) ==
    IF r.status = "returned" THEN FilterState(r.current, "filtering", NoExc)
    ELSE IF r.exc.type = "VariableDoesNotExist" THEN OnMissing(var, ign, sii, r.exc)
    ELSE FilterState(NoneV, "raised", r.exc)

\* Lines 718-734
ResolveBase(fv, ign, env) ==
    IF fv.isvar
    THEN AfterBase(Variable_resolve(fv.var, env), fv.var, ign, env.string_if_invalid)
    ELSE FilterState(fv.value, "filtering", NoExc)

\* Lines 739-742 for one argument: a constant is marked safe, a lookup
\* argument is resolved in the context, outside any try
ArgVal(a, env) ==
    IF a.lookup THEN Variable_resolve(a.var, env)
    ELSE LookupState(mark_safe(a.value), "returned", NoExc, <<>>)

ArgsState(vals, st, e) == [vals |-> vals, status |-> st, exc |-> e]

ArgNext(acc, r) ==
    IF r.status = "returned" THEN ArgsState(Append(acc.vals, r.current), "ok", NoExc)
    ELSE ArgsState(acc.vals, "raised", r.exc)

\* Lines 737-742: arg_vals, or the exception of the first argument that fails
RECURSIVE ResolveArgs(_, _, _, _)
ResolveArgs(args, i, env, acc) ==
    IF acc.status # "ok" \/ i > Len(args) THEN acc
    ELSE ResolveArgs(args, i + 1, env, ArgNext(acc, ArgVal(args[i], env)))

FilterExc(type) == [type |-> type, bit |-> "", cur |-> NoneV]

\* Lines 751-754 marking safe whenever the filter is is_safe
MarkOutput_IgnoreInput(flags, input, new_obj) ==
    IF flags.is_safe THEN mark_safe(new_obj) ELSE new_obj

\* Lines 751-754: the output is marked safe when the filter is is_safe and the
\* input is SafeData; otherwise it is the filter's return value as returned
MarkOutput(flags, input, new_obj) ==
    IF flags.is_safe /\ input.safe THEN mark_safe(new_obj) ELSE new_obj

\* Lines 745-754 with `out` the outcome of the call of the filter function
AfterFilter(flags, input, out) ==
    IF out.out = "value" THEN FilterState(MarkOutput(flags, input, out.v), "filtering", NoExc)
    ELSE FilterState(input, "raised", FilterExc(out.out))

\* One iteration of the loop of lines 736-754 with a the resolved arguments
FilterStep(f, input, autoesc, a) ==
    IF a.status # "ok" THEN FilterState(input, "raised", a.exc)
    ELSE AfterFilter(FilterFlags(f.func), input, FilterFn(f.func, input, a.vals, autoesc))

\* What the iteration adds to the record of the filter calls made
CallRecord(f, input, a) ==
    IF a.status # "ok" THEN <<>>
    ELSE <<[func |-> f.func, input |-> input, args |-> a.vals]>>

NoArgs == ArgsState(<<>>, "ok", NoExc)

\* The chain taken from its last filter to its first
NextFilter_Reversed(filters, done) == filters[Len(filters) - done]

\* The filter of the next iteration of `for func, args in self.filters`
NextFilter(filters, done) == filters[done + 1]

---------------------------------------------------------------------------
(* The filter machine: VariableNode.render, or FilterExpression.resolve    *)
(* called with ignore_failures=True, one filter per step.                  *)

\* The context: x is a text (unmarked or safe) or a number, y a text, e a
\* callable that raises; m is in no frame
XValues == {StrV(<<"a", "<">>, FALSE), StrV(<<"a", "<">>, TRUE), IntV(7)}

FilterFrames ==
    {<<builtins, ("x" :> v @@ "y" :> StrV(<<"b", "&">>, FALSE) @@ "e" :> Ref("f_error"))>> :
        v \in XValues}

\* {{ x }}, {{ m }}, {{ e }} and {{ "c<" }}
Bases == {VarBase(LookupVar(<<n>>, <<n>>)) : n \in {"x", "m", "e"}}
         \cup {ConstBase(StrV(<<"c", "<">>, TRUE))}

\* |add:"!", |add:y and |add:m
AddArgs == {<<ConstArg(StrV(<<"!">>, TRUE))>>}
           \cup {<<LookupArg(LookupVar(<<n>>, <<n>>))>> : n \in {"y", "m"}}

FilterUses == {[func |-> f, args |-> <<>>] : f \in {"upper", "lower", "safe", "esc", "boom"}}
              \cup {[func |-> "add", args |-> a] : a \in AddArgs}

Chains == UNION {[1..n -> FilterUses] : n \in 0..MaxFilters}

\* No variable is being resolved step by step
LookupIdle ==
    /\ lookups = <<>>
    /\ bitIdx = 0
    /\ current = NoneV
    /\ status = "idle"
    /\ exc = NoExc
    /\ calls = <<>>

FilterInit ==
    /\ LookupIdle
    /\ CompileIdle
    /\ LaterIdle
    /\ dicts \in FilterFrames
    /\ string_if_invalid \in InvalidStrings
    /\ fe_var \in Bases
    /\ fe_filters \in Chains
    /\ ignore_failures \in BOOLEAN
    /\ autoescape \in BOOLEAN
    /\ obj = NoneV
    /\ filterIdx = 0
    /\ fstatus = "start"
    /\ fexc = NoExc
    /\ applied = <<>>
    /\ output = NoneV

fixedVars == <<dicts, string_if_invalid, lookups, bitIdx, current, status, exc, calls,
               fe_var, fe_filters, ignore_failures, autoescape, compileVars, laterVars>>

SetFilterState(st) ==
    /\ obj' = st.obj
    /\ fstatus' = st.fstatus
    /\ fexc' = st.fexc

\* Lines 718-734
ResolveVar ==
    /\ fstatus = "start"
    /\ SetFilterState(ResolveBase(fe_var, ignore_failures, Env(dicts, string_if_invalid)))
    /\ UNCHANGED <<fixedVars, filterIdx, applied, output>>

Advance(st, rec) ==
    /\ SetFilterState(st)
    /\ filterIdx' = IF st.fstatus = "filtering" THEN filterIdx + 1 ELSE filterIdx
    /\ applied' = applied \o rec

ApplyWith(f, a) == Advance(FilterStep(f, obj, autoescape, a), CallRecord(f, obj, a))

ApplyNext(f) == ApplyWith(f, ResolveArgs(f.args, 1, Env(dicts, string_if_invalid), NoArgs))

\* One iteration of the loop of lines 736-754
ApplyFilter ==
    /\ fstatus = "filtering"
    /\ filterIdx < Len(fe_filters)
    /\ ApplyNext(NextFilter(fe_filters, filterIdx))
    /\ UNCHANGED <<fixedVars, output>>

\* Line 755
FilterReturn ==
    /\ fstatus = "filtering"
    /\ filterIdx = Len(fe_filters)
    /\ fstatus' = "resolved"
    /\ UNCHANGED <<fixedVars, obj, filterIdx, fexc, applied, output>>

\* Line 1078: VariableNode.render resolves with ignore_failures left False
RenderValue ==
    /\ fstatus = "resolved"
    /\ ~ignore_failures
    /\ output' = render_value_in_context(obj, autoescape)
    /\ fstatus' = "rendered"
    /\ UNCHANGED <<fixedVars, obj, filterIdx, fexc, applied>>

\* Lines 1072-1076: a UnicodeDecodeError fails quietly
RenderQuiet ==
    /\ fstatus = "raised"
    /\ ~ignore_failures
    /\ fexc.type = "UnicodeDecodeError"
    /\ output' = StrV(<<>>, FALSE)
    /\ fstatus' = "rendered"
    /\ fexc' = NoExc
    /\ UNCHANGED <<fixedVars, obj, filterIdx, applied>>

FilterNext == ResolveVar \/ ApplyFilter \/ FilterReturn \/ RenderValue \/ RenderQuiet

SpecFilter == FilterInit /\ [][FilterNext]_vars

---------------------------------------------------------------------------
(* Properties of the filter machine *)

FallbackConfigured == Truthy(string_if_invalid)

\* The outcome of lines 718-734 for the expression's base
BaseState == ResolveBase(fe_var, ignore_failures, CurEnv)

\* The base is a variable whose lookup fails with VariableDoesNotExist
BaseMissing ==
    /\ fe_var.isvar
    /\ Variable_resolve(fe_var.var, CurEnv).exc.type = "VariableDoesNotExist"

RaisedMissing == fstatus = "raised" /\ fexc.type = "VariableDoesNotExist"

\* C1: with an invalid-variable fallback configured, rendering a variable
\* node never raises VariableDoesNotExist, whether the missing lookup is the
\* base variable or a lookup argument of a filter of the chain.
C1_RenderNeverRaisesMissing ==
    (FallbackConfigured /\ ~ignore_failures) => ~RaisedMissing

ResolvingBase == fstatus = "start" /\ BaseMissing /\ ~ignore_failures /\ ~FallbackConfigured

\* C2 as stated: resolving an expression whose base lookup is missing, with
\* ignore_failures false and an empty or null fallback, raises
\* VariableDoesNotExist to the caller.
C2_Original ==
    [][ResolvingBase => (fstatus' = "raised" /\ fexc'.type = "VariableDoesNotExist")]_vars

\* C2: resolving an expression whose base lookup is missing, with
\* ignore_failures false and an empty or null fallback, raises nothing: the
\* running value becomes the fallback itself ('' or None) and resolve goes on
\* to apply the filters of the chain to it.
C2_MissingBaseIsFallback ==
    [][ResolvingBase => (fstatus' = "filtering" /\ obj' = string_if_invalid
                         /\ fexc' = NoExc)]_vars

\* C2 witness: {{ m|upper }} with the fallback None has rendered as NONE.
C2_Witness ==
    /\ fe_var = VarBase(LookupVar(<<"m">>, <<"m">>))
    /\ fe_filters = <<[func |-> "upper", args |-> <<>>]>>
    /\ ~ignore_failures /\ string_if_invalid = NoneV
    /\ fstatus = "rendered" /\ fexc = NoExc
    /\ applied = <<[func |-> "upper", input |-> NoneV, args |-> <<>>]>>
    /\ output.s = <<"N", "O", "N", "E">>

\* The value substituted for a missing base variable
Substituted ==
    IF ignore_failures THEN NoneV
    ELSE IF FallbackConfigured /\ Placeholder(string_if_invalid.s) > 0
    THEN StrV(Format(string_if_invalid.s, fe_var.var.text), FALSE)
    ELSE string_if_invalid

\* A missing base for which resolve returns the fallback at once
ReturnsFallback == BaseMissing /\ ~ignore_failures /\ FallbackConfigured

\* The calls made so far are the first filters of the chain, the first of
\* them on the value v
ChainFrom(v) ==
    /\ Len(applied) <= Len(fe_filters)
    /\ \A i \in 1..Len(applied) : applied[i].func = fe_filters[i].func
    /\ applied # <<>> => applied[1].input = v

C26_Filtered ==
    (BaseMissing /\ ~ReturnsFallback /\ fstatus # "start") =>
        /\ ChainFrom(Substituted)
        /\ fstatus = "resolved" => Len(applied) = Len(fe_filters)

C26_Returned ==
    (ReturnsFallback /\ fstatus # "start") =>
        /\ fstatus \in {"resolved", "rendered"}
        /\ obj = Substituted
        /\ applied = <<>>

\* C26 (amended): when the base lookup is missing, null (ignore_failures) or
\* an empty or null fallback is passed through every filter of the chain in
\* order, as a resolved value would be; a non-empty fallback, with '%s'
\* replaced by the variable's text, is returned at once and no filter is
\* applied to it
C26_MissingBase == C26_Filtered /\ C26_Returned

\* C26 as stated: whatever is substituted for a missing base is passed
\* through every filter of the chain
C26_Original ==
    (BaseMissing /\ fstatus = "resolved") =>
        (ChainFrom(Substituted) /\ Len(applied) = Len(fe_filters))

\* A missing base with a chain of two filters and the fallback N/A has
\* resolved to N/A, no filter applied
C26_Witness ==
    /\ BaseMissing /\ ~ignore_failures
    /\ string_if_invalid = StrV(<<"N", "/", "A">>, FALSE)
    /\ Len(fe_filters) = 2
    /\ fstatus = "resolved" /\ obj = string_if_invalid /\ applied = <<>>

Occurs(sub, s) ==
    \E i \in 1..(Len(s) - Len(sub) + 1) : SubSeq(s, i, i + Len(sub) - 1) = sub

Rendering == fstatus = "resolved" /\ fstatus' = "rendered"

\* What autoescape rendering does to the text of an unmarked value
EscapedOutput(text, out) ==
    /\ out = Escape(text)
    /\ ~Occurs(<<"<">>, out)
    /\ Occurs(<<"<">>, text) => Occurs(<<"&", "l", "t", ";">>, out)

\* C4: rendering a variable node with autoescape active HTML-escapes the
\* resolved value unless it is marked safe: a safe value is output unchanged
\* (never escaped again), an unmarked value containing '<' is output with
\* '&lt;' in its place; with autoescape inactive the output is the value's
\* text, unescaped.
C4_AutoescapeAtOutput ==
    [][Rendering =>
        /\ (autoescape /\ obj.safe) => output'.s = obj.s
        /\ (autoescape /\ ~obj.safe) => EscapedOutput(PyStr(obj), output'.s)
        /\ ~autoescape => output'.s = PyStr(obj)]_vars

\* C4 witness: {{ x }} with x the unmarked text a< rendered under autoescape
\* as a&lt;.
C4_Witness ==
    /\ fstatus = "rendered" /\ autoescape /\ fe_filters = <<>>
    /\ fe_var = VarBase(LookupVar(<<"x">>, <<"x">>))
    /\ obj = StrV(<<"a", "<">>, FALSE)
    /\ output.s = <<"a", "&", "l", "t", ";">>

\* A filter has just been applied and has returned
Filtered == fstatus = "filtering" /\ filterIdx' = filterIdx + 1

LastCall == applied'[Len(applied')]

InputSafeAndDeclared == FilterFlags(LastCall.func).is_safe /\ obj.safe

\* What the filter function returned in the call just made
Returned == FilterFn(LastCall.func, LastCall.input, LastCall.args, autoescape).v

\* C5 as stated: after each filter the running value is marked safe exactly
\* when the filter declares is_safe and its input was marked safe; in every
\* other case it is unmarked.
C5_Original == [][Filtered => (obj'.safe <=> InputSafeAndDeclared)]_vars

\* C5: after each filter the running value is marked safe when the filter
\* declares is_safe and its input was marked safe; in every other case the
\* running value is the filter's return value as returned, with the marking
\* the filter gave it, so it is marked safe exactly when the filter returned
\* a value marked safe.
C5_SafeMarking ==
    [][Filtered =>
        /\ InputSafeAndDeclared => (obj' = mark_safe(Returned) /\ obj'.safe)
        /\ ~InputSafeAndDeclared => (obj' = Returned /\ (obj'.safe <=> Returned.safe))]_vars

\* C5 witness: {{ x|safe }} on the unmarked text a< has a running value
\* marked safe; {{ x|lower }} on unmarked input would not.
C5_Witness ==
    /\ fstatus = "filtering" /\ filterIdx = 1
    /\ applied = <<[func |-> "safe", input |-> StrV(<<"a", "<">>, FALSE), args |-> <<>>]>>
    /\ obj = StrV(<<"a", "<">>, TRUE)

\* The arguments of filter f resolved in the context
ArgVals(f) == ResolveArgs(f.args, 1, CurEnv, NoArgs).vals

\* f(v, *args) with the marking of lines 751-754
Apply(f, v) ==
    MarkOutput(FilterFlags(f.func), v, FilterFn(f.func, v, ArgVals(f), autoescape).v)

\* g_n(... g_2(g_1(x, a_1), a_2) ..., a_n) for the first n filters of the chain
RECURSIVE ChainValue(_, _, _)
ChainValue(x, chain, n) ==
    IF n = 0 THEN x ELSE Apply(chain[n], ChainValue(x, chain, n - 1))

\* The iterations done so far were the first filterIdx filters in their order
InOrder ==
    /\ Len(applied) = filterIdx
    /\ \A i \in 1..filterIdx :
        /\ applied[i].func = fe_filters[i].func
        /\ applied[i].args = ArgVals(fe_filters[i])
        /\ applied[i].input = ChainValue(BaseState.obj, fe_filters, i - 1)
    /\ obj = ChainValue(BaseState.obj, fe_filters, filterIdx)

\* C10: FilterExpression.resolve applies the filters in the left-to-right
\* order of the expression, each filter receiving the previous filter's
\* output as its input together with its own resolved arguments, so that
\* x|f|g:a yields g(f(x), a).  (When the base is missing and a fallback is
\* configured, resolve returns before the loop and applies no filter.)
C10_LeftToRight ==
    (fstatus \in {"filtering", "resolved"} /\ BaseState.fstatus = "filtering")
        => /\ InOrder
           /\ fstatus = "resolved" => filterIdx = Len(fe_filters)

\* C10 witness: {{ x|upper|add:y }} with x = a< and y = b& resolved to A<b&.
C10_Witness ==
    /\ fstatus = "resolved" /\ filterIdx = 2
    /\ fe_var = VarBase(LookupVar(<<"x">>, <<"x">>))
    /\ dicts[2]["x"] = StrV(<<"a", "<">>, FALSE)
    /\ fe_filters = <<[func |-> "upper", args |-> <<>>],
                      [func |-> "add", args |-> <<LookupArg(LookupVar(<<"y">>, <<"y">>))>>]>>
    /\ obj = StrV(<<"A", "<", "b", "&">>, FALSE)

---------------------------------------------------------------------------
(* Variable.__init__: django/template/base.py *)

\* A float literal: the double nearest to n * 10^e
FloatV(n, e) == [kind |-> "float", s |-> <<>>, safe |-> FALSE, id |-> "", n |-> n, e |-> e]

StartsWith(s, p) == Len(s) >= Len(p) /\ SubSeq(s, 1, Len(p)) = p
EndsWith(s, p) == Len(s) >= Len(p) /\ SubSeq(s, Len(s) - Len(p) + 1, Len(s)) = p

\* s.find(sub) + 1: the position of the first occurrence, 0 when there is none
Find(s, sub) ==
    IF Occurs(sub, s)
    THEN CHOOSE i \in 1..(Len(s) - Len(sub) + 1) :
            /\ SubSeq(s, i, i + Len(sub) - 1) = sub
            /\ \A j \in 1..(i - 1) : SubSeq(s, j, j + Len(sub) - 1) # sub
    ELSE 0

IsDigit(c) == IsIn(c, DigitChars)

\* Digits with single underscores between them, as int() and float() take them
DigitPart(s) ==
    /\ Len(s) > 0
    /\ IsDigit(s[1]) /\ IsDigit(s[Len(s)])
    /\ \A i \in 1..Len(s) : IsDigit(s[i]) \/ (s[i] = "_" /\ IsDigit(s[i - 1]))

DigitsOf(s) == SelectSeq(s, IsDigit)

RECURSIVE DecValue(_)
DecValue(ds) ==
    IF ds = <<>> THEN 0
    ELSE 10 * DecValue(SubSeq(ds, 1, Len(ds) - 1)) + (IndexIn(ds[Len(ds)], DigitChars) - 1)

BeforeAt(s, i) == IF i = 0 THEN s ELSE SubSeq(s, 1, i - 1)
AfterAt(s, i) == IF i = 0 THEN <<>> ELSE SubSeq(s, i + 1, Len(s))

\* The mantissa: digits, digits with a point among them, before or after them
IsMantissa(ip, point, fp) ==
    IF point = 0 THEN DigitPart(ip)
    ELSE /\ (ip = <<>> \/ DigitPart(ip))
         /\ (fp = <<>> \/ DigitPart(fp))
         /\ ~(ip = <<>> /\ fp = <<>>)

MantissaOk(m) == IsMantissa(BeforeAt(m, Find(m, <<".">>)), Find(m, <<".">>),
                            AfterAt(m, Find(m, <<".">>)))

\* float(var) accepts the text (unsigned decimal notation, exponent optional)
IsFloatAt(var, e) ==
    /\ MantissaOk(BeforeAt(var, e))
    /\ e > 0 => DigitPart(AfterAt(var, e))

IsFloat(var) == IsFloatAt(var, Find(var, <<"e">>))

FloatParts(ip, fp, ex) ==
    FloatV(DecValue(DigitsOf(ip \o fp)), DecValue(DigitsOf(ex)) - Len(DigitsOf(fp)))

FloatAt(var, m, ex) ==
    FloatParts(BeforeAt(m, Find(m, <<".">>)), AfterAt(m, Find(m, <<".">>)), ex)

\* float(var) of an accepted text
FloatOf(var) == FloatAt(var, BeforeAt(var, Find(var, <<"e">>)), AfterAt(var, Find(var, <<"e">>)))

\* The try block of lines 812-825: the number, or ValueError with
\* self.literal as the block left it (the float of a text that ends in '.')
NumberTry(out, literal) == [out |-> out, literal |-> literal]

ParseNumber(var) ==
    IF Occurs(<<".">>, var) \/ Occurs(<<"e">>, var)
    THEN IF ~IsFloat(var) THEN NumberTry("ValueError", NoneV)
         ELSE IF EndsWith(var, <<".">>) THEN NumberTry("ValueError", FloatOf(var))
         ELSE NumberTry("value", FloatOf(var))
    ELSE IF DigitPart(var) THEN NumberTry("value", IntV(DecValue(DigitsOf(var))))
    ELSE NumberTry("ValueError", NoneV)

\* Lines 828-832
IsTranslated(var) == StartsWith(var, <<"_", "(">>) /\ EndsWith(var, <<")">>)
StripMarker(var) == IF IsTranslated(var) THEN SubSeq(var, 3, Len(var) - 1) ELSE var

\* s.replace(<<a, b>>, <<r>>)
RECURSIVE ReplacePair(_, _, _, _)
ReplacePair(s, a, b, r) ==
    IF Len(s) < 2 THEN s
    ELSE IF s[1] = a /\ s[2] = b THEN <<r>> \o ReplacePair(SubSeq(s, 3, Len(s)), a, b, r)
    ELSE <<s[1]>> \o ReplacePair(Tail(s), a, b, r)

Unquote(s, quote) == ReplacePair(ReplacePair(s, "\\", quote, quote), "\\", "\\", "\\")

\* django.utils.text.unescape_string_literal
unescape_string_literal(s) ==
    IF s = <<>> THEN Outcome("IndexError", NoneV)
    ELSE IF s[1] \notin {"\"", "'"} \/ s[Len(s)] # s[1] THEN Outcome("ValueError", NoneV)
    ELSE Outcome("value", StrV(Unquote(SubSeq(s, 2, Len(s) - 1), s[1]), FALSE))

\* var.split('.')
RECURSIVE Split(_)
Split(s) ==
    IF Find(s, <<".">>) = 0 THEN <<s>>
    ELSE <<BeforeAt(s, Find(s, <<".">>))>> \o Split(AfterAt(s, Find(s, <<".">>)))

InitResult(st, v) == [cstatus |-> st, compiled |-> v]

NoVariable == VariableRec(FALSE, <<>>, NoneV, <<>>, FALSE)

\* The test of line 840 looking at the first character only
HasUnderscore_FirstOnly(var) == var[1] = "_"

\* Line 840: var.find('._') > -1 or var[0] == '_'
HasUnderscore(var) == Find(var, <<".", "_">>) > 0 \/ var[1] = "_"

\* Lines 834-844 with u the outcome of unescape_string_literal(var)
AfterUnescape(raw, var, tr, literal, u) ==
    CASE u.out = "IndexError" -> InitResult("IndexError", NoVariable)
      [] u.out = "value" ->
            InitResult("compiled", VariableRec(FALSE, <<>>, mark_safe(u.v), raw, tr))
      [] OTHER ->
            IF HasUnderscore(var) THEN InitResult("TemplateSyntaxError", NoVariable)
            ELSE InitResult("compiled", VariableRec(TRUE, Split(var), literal, raw, tr))

\* Lines 826-844: the handler of ValueError
NotANumber(raw, var, tr, literal) ==
    AfterUnescape(raw, var, tr, literal, unescape_string_literal(var))

AfterNumber(raw, num) ==
    IF num.out = "value"
    THEN InitResult("compiled", VariableRec(FALSE, <<>>, num.literal, raw, FALSE))
    ELSE NotANumber(raw, StripMarker(raw), IsTranslated(raw), num.literal)

\* Variable.__init__ (lines 800-844) of a str
Variable_init(var) == AfterNumber(var, ParseNumber(var))

---------------------------------------------------------------------------
(* The compile machine: Variable(var) for a raw text *)

TextChars == {"_", ".", "e", "1", "(", ")", "'"}

Texts == UNION {[1..n -> TextChars] : n \in 0..MaxText}

CompileInit ==
    /\ LookupIdle
    /\ FilterIdle
    /\ LaterIdle
    /\ dicts = <<builtins>>
    /\ string_if_invalid = StrV(<<>>, FALSE)
    /\ var_text \in Texts
    /\ cstatus = "start"
    /\ compiled = NoVariable

SetCompiled(r) ==
    /\ cstatus' = r.cstatus
    /\ compiled' = r.compiled

Compile ==
    /\ cstatus = "start"
    /\ SetCompiled(Variable_init(var_text))
    /\ UNCHANGED <<lookupVars, filterVars, var_text, laterVars>>

CompileNext == Compile

SpecCompile == CompileInit /\ [][CompileNext]_vars

---------------------------------------------------------------------------
(* Properties of the compile machine *)

Compiled == cstatus = "compiled"

\* The raw text is neither a number nor (the marker removed) a quoted string
NotLiteral ==
    /\ ParseNumber(var_text).out # "value"
    /\ unescape_string_literal(StripMarker(var_text)).out # "value"

Reserved(text) == StartsWith(text, <<"_">>) \/ Occurs(<<".", "_">>, text)

\* No lookup segment of the compiled Variable begins with '_'
NoUnderscoreSegment ==
    (Compiled /\ compiled.haslookups) =>
        \A i \in 1..Len(compiled.lookups) : ~StartsWith(compiled.lookups[i], <<"_">>)

\* C8 as stated: compiling a raw text that is not a literal fails with a
\* template syntax error whenever the text starts with '_' or contains '._',
\* so no compiled Variable has a lookup segment that begins with '_'.
C8_Original ==
    cstatus # "start" =>
        /\ (NotLiteral /\ Reserved(var_text)) => cstatus = "TemplateSyntaxError"
        /\ NoUnderscoreSegment

\* C8: the test is made on the text left once a wrapping translation marker
\* _(...) is removed: compiling a raw text that is not a literal fails with a
\* template syntax error whenever that text is not empty and starts with '_'
\* or contains '._' (so _(x) compiles although it starts with '_'), and fails
\* with IndexError when that text is empty (the raw text '' or '_()'); no
\* compiled Variable, translated or not, has a lookup segment that begins
\* with '_'.
C8_UnderscoreRejected ==
    cstatus # "start" =>
        /\ (NotLiteral /\ StripMarker(var_text) # <<>> /\ Reserved(StripMarker(var_text)))
                => cstatus = "TemplateSyntaxError"
        /\ (NotLiteral /\ StripMarker(var_text) = <<>>) => cstatus = "IndexError"
        /\ NoUnderscoreSegment

\* C8 witness: the text e._ was rejected with a template syntax error.
C8_Witness ==
    /\ var_text = <<"e", ".", "_">>
    /\ cstatus = "TemplateSyntaxError"

\* C29: every successfully compiled Variable is a literal or a lookup path,
\* never both: exactly one of its literal value and its lookup segments is
\* set, for every raw text, numeric-looking text that ends in '.' included.
C29_LiteralOrLookups ==
    Compiled => (compiled.haslookups <=> compiled.literal = NoneV)

---------------------------------------------------------------------------
(* FilterExpression.args_check and the call of the filter at render time *)

\* FilterExpression.args_check (lines 757-772) for n provided arguments:
\* plen = n + 1, the filter input being implied
args_check(s, n) ==
    IF n + 1 < s.alen - s.dlen \/ n + 1 > s.alen THEN "TemplateSyntaxError" ELSE "compiled"

\* Binding npos positional arguments to the parameters, none by keyword
BindPositional(s, npos) ==
    IF npos > s.alen /\ ~s.varargs THEN "TypeError"
    ELSE IF npos < s.alen - s.dlen THEN "TypeError"
    ELSE "called"

\* Binding npos positional arguments and autoescape=... to the parameters, the
\* last of which is `autoescape`: it must not be filled positionally as well,
\* and every other parameter without default must be filled
BindWithAutoescape(s, npos) ==
    IF npos >= s.alen THEN "TypeError"
    ELSE IF npos < s.alen - 1 /\ npos < s.alen - s.dlen THEN "TypeError"
    ELSE "called"

\* Lines 745-748: func(obj, autoescape=context.autoescape, *arg_vals) for a
\* needs_autoescape filter, func(obj, *arg_vals) otherwise
FilterCall(s, n) ==
    IF s.auto THEN BindWithAutoescape(s, n + 1) ELSE BindPositional(s, n + 1)

---------------------------------------------------------------------------
(* The argument machine: a filter use is compiled, then invoked *)

SignatureShapes ==
    {Signature(a, d, v, au) : a \in 1..MaxParams, d \in 0..MaxParams, v \in BOOLEAN,
                              au \in BOOLEAN}

\* def f(value, ...): defaults on trailing parameters; `autoescape`, when the
\* filter needs it, is a parameter after the value
Signatures == {s \in SignatureShapes : s.dlen <= s.alen /\ (s.auto => s.alen >= 2)}

\* The filter syntax takes at most one argument after the colon
Provided == 0..1

ArgsInit ==
    /\ LookupIdle /\ dicts = <<builtins>> /\ string_if_invalid = StrV(<<>>, FALSE)
    /\ FilterIdle
    /\ CompileIdle
    /\ LexIdle
    /\ ParseIdle
    /\ CtxIdle
    /\ WithIdle
    /\ RenderIdle
    /\ sig \in Signatures
    /\ provided \in Provided
    /\ astatus = "start"

\* FilterExpression.__init__, line 705
ArgsCheck ==
    /\ astatus = "start"
    /\ astatus' = args_check(sig, provided)
    /\ UNCHANGED <<restOfArgs, sig, provided>>

\* FilterExpression.resolve, lines 745-748
Invoke ==
    /\ astatus = "compiled"
    /\ astatus' = FilterCall(sig, provided)
    /\ UNCHANGED <<restOfArgs, sig, provided>>

ArgsNext == ArgsCheck \/ Invoke

SpecArgs == ArgsInit /\ [][ArgsNext]_vars

---------------------------------------------------------------------------
(* Properties of the argument machine *)

\* C11: a filter use whose argument count does not fit the callable (the
\* implied input plus the provided arguments is fewer than the required
\* parameters or more than all parameters) fails at compile time with a
\* template syntax error, and every filter use that compiles is invoked at
\* render time without an argument-count failure, with or without the
\* needs-autoescape flag.
C11_ArityCheckedAtCompile ==
    /\ (astatus # "start" /\ (provided + 1 < sig.alen - sig.dlen \/ provided + 1 > sig.alen))
            => astatus = "TemplateSyntaxError"
    /\ astatus # "TypeError"

---------------------------------------------------------------------------
(* Lexer and DebugLexer: django/template/base.py *)

BLOCK_TAG_START == <<"{", "%">>
VARIABLE_TAG_START == <<"{", "{">>
COMMENT_TAG_START == <<"{", "#">>
TRANSLATOR_COMMENT_MARK == <<"T", "r", "a", "n", "s", "l", "a", "t", "o", "r", "s">>

\* The character before the closing brace of the tag that opens with "{" c
CloserOf(c) == IF c = "{" THEN "}" ELSE c

\* Positions j at which the tag opened at i can close: the closing delimiter
\* is at j, j + 1 and `.` has matched no newline before it
Closings(s, i, c) ==
    {j \in (i + 2)..(Len(s) - 1) :
        /\ s[j] = c /\ s[j + 1] = "}"
        /\ \A k \in (i + 2)..(j - 1) : s[k] # "\n"}

Least(S) == CHOOSE x \in S : \A y \in S : x <= y

LazyEnd(S) == IF S = {} THEN 0 ELSE Least(S) + 1

\* tag_re.match at position i (from 1): the position of the last character
\* of the match, `.*?` taking as little as it can; 0 when there is no match
TagEnd(s, i) ==
    IF i + 1 <= Len(s) /\ s[i] = "{" /\ s[i + 1] \in {"%", "{", "#"}
    THEN LazyEnd(Closings(s, i, CloserOf(s[i + 1])))
    ELSE 0

TagStarts(s, from) == {i \in from..Len(s) : TagEnd(s, i) > 0}

\* tag_re.search from position `from`: where the leftmost match starts, or 0
NextTag(s, from) == IF TagStarts(s, from) = {} THEN 0 ELSE Least(TagStarts(s, from))

\* tag_re.split(s) from position `from`: text, tag, text, ..., text
RECURSIVE SplitFrom(_, _)
SplitAt(s, from, i) ==
    IF i = 0 THEN <<SubSeq(s, from, Len(s))>>
    ELSE <<SubSeq(s, from, i - 1), SubSeq(s, i, TagEnd(s, i))>> \o SplitFrom(s, TagEnd(s, i) + 1)

SplitFrom(s, from) == SplitAt(s, from, NextTag(s, from))

tag_re_split(s) == SplitFrom(s, 1)

IsSpace(c) == c \in {" ", "\n", "\t"}

RECURSIVE LStrip(_)
LStrip(s) == IF s # <<>> /\ IsSpace(Head(s)) THEN LStrip(Tail(s)) ELSE s

RECURSIVE RStrip(_)
RStrip(s) ==
    IF s # <<>> /\ IsSpace(s[Len(s)]) THEN RStrip(SubSeq(s, 1, Len(s) - 1)) ELSE s

\* str.strip()
Strip(s) == RStrip(LStrip(s))

\* token_string[2:-2], not stripped
TagContent_NoStrip(token_string) == SubSeq(token_string, 3, Len(token_string) - 2)

\* token_string[2:-2].strip()
TagContent(token_string) == Strip(SubSeq(token_string, 3, Len(token_string) - 2))

\* s.count('\n')
CountNewlines(s) == Len(SelectSeq(s, LAMBDA c : c = "\n"))

\* Token(token_type, contents, position, lineno); position <<>> is None
Token(token_type, contents, position, line) ==
    [token_type |-> token_type, contents |-> contents, position |-> position,
     lineno |-> line]

Created(token, v) == [token |-> token, verbatim |-> v]

\* Lines 382-391 never leaving the verbatim region
VerbatimAfterClose_Never(token_string, intag, v) == v

\* Lines 382-391: a block whose content is self.verbatim ends the region
VerbatimAfterClose(token_string, intag, v) ==
    IF intag /\ StartsWith(token_string, BLOCK_TAG_START) /\ v # <<>>
       /\ TagContent(token_string) = v
    THEN <<>>
    ELSE v

\* Lines 398-400: block_content[:9] in ('verbatim', 'verbatim ')
OpensVerbatim(block_content) ==
    SubSeq(block_content, 1, IF Len(block_content) < 9 THEN Len(block_content) ELSE 9)
        \in {<<"v", "e", "r", "b", "a", "t", "i", "m">>,
             <<"v", "e", "r", "b", "a", "t", "i", "m", " ">>}

\* Lines 404-407: find() is -1, which is true, when the mark is absent
CommentContent(token_string) ==
    IF Find(token_string, TRANSLATOR_COMMENT_MARK) - 1 # 0 THEN TagContent(token_string)
    ELSE <<>>

\* Lines 392-407: a tag outside a verbatim region
TagToken(token_string, position, line, block_content) ==
    CASE StartsWith(token_string, VARIABLE_TAG_START) ->
            Created(Token("VAR", TagContent(token_string), position, line), <<>>)
      [] StartsWith(token_string, BLOCK_TAG_START) ->
            Created(Token("BLOCK", block_content, position, line),
                    IF OpensVerbatim(block_content) THEN <<"e", "n", "d">> \o block_content
                    ELSE <<>>)
      [] OTHER ->
            Created(Token("COMMENT", CommentContent(token_string), position, line), <<>>)

\* Lines 392-410 with v self.verbatim after lines 382-391
TokenWith(token_string, position, line, intag, v) ==
    IF intag /\ v = <<>>
    THEN TagToken(token_string, position, line, TagContent(token_string))
    ELSE Created(Token("TEXT", token_string, position, line), v)

\* Lexer.create_token (lines 375-410): the token and self.verbatim after it
create_token(token_string, position, line, intag, v) ==
    TokenWith(token_string, position, line, intag,
              VerbatimAfterClose(token_string, intag, v))

---------------------------------------------------------------------------
(* The lexer machine: Lexer(source).tokenize() one bit per step, then      *)
(* DebugLexer(source).tokenize() one match per step.                       *)

VerbatimWord == <<"v", "e", "r", "b", "a", "t", "i", "m">>
BlockOf(content) == <<"{", "%", " ">> \o content \o <<" ", "%", "}">>

\* What a source is made of: verbatim openers and closers (plain and named
\* b), a variable, a comment, a block, a line of text, an opener never closed
Pieces ==
    {BlockOf(VerbatimWord), BlockOf(<<"e", "n", "d">> \o VerbatimWord),
     BlockOf(VerbatimWord \o <<" ", "b">>),
     BlockOf(<<"e", "n", "d">> \o VerbatimWord \o <<" ", "b">>),
     <<"{", "{", " ", "x", " ", "}", "}">>, <<"{", "#", " ", "c", " ", "#", "}">>,
     <<"{", "%", "i", "f", "%", "}">>, <<"a", "\n">>, <<"{", "{">>}

RECURSIVE Concat(_)
Concat(ps) == IF ps = <<>> THEN <<>> ELSE Head(ps) \o Concat(Tail(ps))

Sources == {Concat(ps) : ps \in UNION {[1..n -> Pieces] : n \in 0..MaxPieces}}

LexInit ==
    /\ LookupIdle /\ dicts = <<builtins>> /\ string_if_invalid = StrV(<<>>, FALSE)
    /\ FilterIdle
    /\ CompileIdle
    /\ ArgsIdle
    /\ ParseIdle
    /\ CtxIdle
    /\ WithIdle
    /\ RenderIdle
    /\ template_string \in Sources
    /\ phase = "start"
    /\ split_bits = <<>>
    /\ bitNo = 0
    /\ in_tag = FALSE
    /\ lineno = 1
    /\ verbatim = <<>>
    /\ result = <<>>
    /\ upto = 0
    /\ dresult = <<>>

\* Lines 362-367: Lexer.tokenize starts and the source is split
LexSplit ==
    /\ phase = "start"
    /\ phase' = "lexer"
    /\ split_bits' = tag_re_split(template_string)
    /\ in_tag' = FALSE
    /\ lineno' = 1
    /\ result' = <<>>
    /\ UNCHANGED <<restOfLex, template_string, bitNo, verbatim, upto, dresult>>

LexAppend(c) ==
    /\ result' = Append(result, c.token)
    /\ verbatim' = c.verbatim

LexCreate(bit) ==
    IF bit = <<>> THEN UNCHANGED <<result, verbatim>>
    ELSE LexAppend(create_token(bit, <<>>, lineno, in_tag, verbatim))

LexLoop(bit) ==
    /\ LexCreate(bit)
    /\ in_tag' = ~in_tag
    /\ lineno' = lineno + CountNewlines(bit)

\* Lines 367-372: one iteration of the loop of Lexer.tokenize
LexBit ==
    /\ phase = "lexer"
    /\ bitNo < Len(split_bits)
    /\ LexLoop(split_bits[bitNo + 1])
    /\ bitNo' = bitNo + 1
    /\ UNCHANGED <<restOfLex, template_string, phase, split_bits, upto, dresult>>

\* Line 373
LexReturn ==
    /\ phase = "lexer"
    /\ bitNo = Len(split_bits)
    /\ phase' = "lexed"
    /\ UNCHANGED <<restOfLex, template_string, split_bits, bitNo, in_tag, lineno, verbatim,
                   result, upto, dresult>>

\* DebugLexer(template_string) and lines 420-422
DebugStart ==
    /\ phase = "lexed"
    /\ phase' = "debug"
    /\ verbatim' = <<>>
    /\ lineno' = 1
    /\ dresult' = <<>>
    /\ upto' = 0
    /\ UNCHANGED <<restOfLex, template_string, split_bits, bitNo, in_tag, result>>

DebugState(r, v, l) == [result |-> r, verbatim |-> v, lineno |-> l]

DebugAppend(st, c, token_string) ==
    DebugState(Append(st.result, c.token), c.verbatim,
               st.lineno + CountNewlines(token_string))

\* result.append(self.create_token(...)); lineno += token_string.count('\n')
DebugToken(st, token_string, position, intag) ==
    DebugAppend(st, create_token(token_string, position, st.lineno, intag, st.verbatim),
                token_string)

\* Lines 425-429 left out: the text before a match yields no token
DebugText_Skipped(st, s, up, start) == st

\* Lines 425-429: the text before the match, when there is some
DebugText(st, s, up, start) ==
    IF start > up THEN DebugToken(st, SubSeq(s, up + 1, start), <<up, start>>, FALSE)
    ELSE st

\* Lines 424-433 for the match that spans [start, end)
DebugIter(st, s, up, start, end) ==
    DebugToken(DebugText(st, s, up, start), SubSeq(s, start + 1, end), <<start, end>>, TRUE)

SetDebugState(st) ==
    /\ dresult' = st.result
    /\ verbatim' = st.verbatim
    /\ lineno' = st.lineno

DebugAt(i) ==
    /\ SetDebugState(DebugIter(DebugState(dresult, verbatim, lineno), template_string, upto,
                               i - 1, TagEnd(template_string, i)))
    /\ upto' = TagEnd(template_string, i)

\* One iteration of `for match in tag_re.finditer(self.template_string)`
DebugMatch ==
    /\ phase = "debug"
    /\ NextTag(template_string, upto + 1) > 0
    /\ DebugAt(NextTag(template_string, upto + 1))
    /\ UNCHANGED <<restOfLex, template_string, phase, split_bits, bitNo, in_tag, result>>

DebugLastBit(last_bit) ==
    IF last_bit = <<>> THEN UNCHANGED <<dresult, verbatim>>
    ELSE /\ dresult' = Append(dresult, create_token(last_bit, <<upto, upto + Len(last_bit)>>,
                                                    lineno, FALSE, verbatim).token)
         /\ verbatim' = create_token(last_bit, <<upto, upto + Len(last_bit)>>,
                                     lineno, FALSE, verbatim).verbatim

\* Lines 434-437: the text after the last match, and the return
DebugReturn ==
    /\ phase = "debug"
    /\ NextTag(template_string, upto + 1) = 0
    /\ DebugLastBit(SubSeq(template_string, upto + 1, Len(template_string)))
    /\ phase' = "done"
    /\ UNCHANGED <<restOfLex, template_string, split_bits, bitNo, in_tag, lineno, result, upto>>

LexNext == LexSplit \/ LexBit \/ LexReturn \/ DebugStart \/ DebugMatch \/ DebugReturn

SpecLex == LexInit /\ [][LexNext]_vars

---------------------------------------------------------------------------
(* Properties of the lexer machine *)

LexStepping == phase = "lexer" /\ bitNo < Len(split_bits)
CurLexBit == split_bits[bitNo + 1]

\* The bits are the source cut at its delimited regions: text and regions
\* alternate, each region is one whole {{ }}, {% %} or {# #} closed at its
\* first closing delimiter, and no text between regions holds a region
SplitIsSource ==
    phase \notin {"start", "idle"} =>
        /\ Concat(split_bits) = template_string
        /\ Len(split_bits) % 2 = 1
        /\ \A i \in 1..Len(split_bits) :
            IF i % 2 = 0 THEN TagEnd(split_bits[i], 1) = Len(split_bits[i])
            ELSE TagStarts(split_bits[i], 1) = {}

KindOf(region) ==
    CASE region[2] = "{" -> "VAR"
      [] region[2] = "%" -> "BLOCK"
      [] OTHER -> "COMMENT"

Stripped(region) == Strip(SubSeq(region, 3, Len(region) - 2))

Emitted(token_type, contents) ==
    /\ Len(result') = Len(result) + 1
    /\ SubSeq(result', 1, Len(result)) = result
    /\ result'[Len(result')].token_type = token_type
    /\ result'[Len(result')].contents = contents

\* One iteration outside a verbatim region
OutsideRule ==
    /\ CurLexBit = <<>> => result' = result
    /\ (~in_tag /\ CurLexBit # <<>>) => Emitted("TEXT", CurLexBit)
    /\ in_tag => Emitted(KindOf(CurLexBit), Stripped(CurLexBit))

\* C12: tokenizing yields the pieces of the source in source order: outside
\* a verbatim region every {{ }}, {% %} or {# #} region yields exactly one
\* token of kind Variable, Block or Comment whose content is the text
\* between the delimiters, stripped; every non-empty run of text between
\* regions yields exactly one Text token holding that exact text; an empty
\* run yields no token.
C12_TokensInSourceOrder ==
    /\ [][(LexStepping /\ verbatim = <<>>) => OutsideRule]_vars
    /\ [](SplitIsSource)
    /\ [](phase = "lexed" =>
            Len(result) = Cardinality({i \in 1..Len(split_bits) : split_bits[i] # <<>>}))

\* C12 witness: the source a\n{{ x }}a\n was tokenized as Text, Variable x,
\* Text.
C12_Witness ==
    /\ phase = "lexed"
    /\ template_string = <<"a", "\n", "{", "{", " ", "x", " ", "}", "}", "a", "\n">>
    /\ result = <<Token("TEXT", <<"a", "\n">>, <<>>, 1), Token("VAR", <<"x">>, <<>>, 2),
                  Token("TEXT", <<"a", "\n">>, <<>>, 2)>>

SameToken(t, d) ==
    /\ t.token_type = d.token_type
    /\ t.contents = d.contents
    /\ t.lineno = d.lineno

\* Debug tokens carry offsets that tile the source, and the line of each is
\* 1 plus the number of newlines before its start
OffsetsAndLines ==
    \A i \in 1..Len(dresult) :
        /\ Len(dresult[i].position) = 2
        /\ dresult[i].position[1] = IF i = 1 THEN 0 ELSE dresult[i - 1].position[2]
        /\ dresult[i].position[2] > dresult[i].position[1]
        /\ dresult[i].lineno =
              1 + CountNewlines(SubSeq(template_string, 1, dresult[i].position[1]))

\* C13: for every source the debug tokenizer and the non-debug tokenizer
\* produce the same sequence of tokens (kinds, contents, line numbers,
\* order), verbatim regions included; only the debug tokens carry (start,
\* end) offsets, and each token's line number is 1 plus the number of
\* newlines in the source before the token's start.
C13_DebugLexerSameTokens ==
    phase = "done" =>
        /\ Len(dresult) = Len(result)
        /\ \A i \in 1..Len(result) :
            SameToken(result[i], dresult[i]) /\ result[i].position = <<>>
        /\ OffsetsAndLines
        /\ (dresult # <<>> => dresult[Len(dresult)].position[2] = Len(template_string))

\* C13 witness: both tokenizers have run on a source with a verbatim region
\* after a line of text, and produced three tokens.
C13_Witness ==
    /\ phase = "done"
    /\ template_string = <<"a", "\n">> \o BlockOf(VerbatimWord)
                         \o <<"{", "{", " ", "x", " ", "}", "}">>
    /\ Len(dresult) = 3
    /\ dresult[3] = Token("TEXT", <<"{", "{", " ", "x", " ", "}", "}">>, <<16, 23>>, 2)

IsBlockRegion(region) == region[2] = "%"

\* One iteration on a delimited region inside a verbatim region: the block
\* that matches ends the region and is a Block token, anything else is text
InsideRule ==
    IF IsBlockRegion(CurLexBit) /\ Stripped(CurLexBit) = verbatim
    THEN Emitted("BLOCK", Stripped(CurLexBit)) /\ verbatim' = <<>>
    ELSE Emitted("TEXT", CurLexBit) /\ verbatim' = verbatim

IsVerbatimOpener(content) ==
    content = VerbatimWord \/ StartsWith(content, VerbatimWord \o <<" ">>)

\* A region outside a verbatim region opens one exactly when it is a
\* verbatim block; the block that ends it is `end` and the opener's content
OpenRule ==
    verbatim' = IF IsBlockRegion(CurLexBit) /\ IsVerbatimOpener(Stripped(CurLexBit))
                THEN <<"e", "n", "d">> \o Stripped(CurLexBit)
                ELSE <<>>

\* C14: from a verbatim block token until the first block whose content is
\* the matching endverbatim, every delimited region (variable, block,
\* comment or another verbatim opener) is emitted as a Text token holding
\* its source text, delimiters intact; the closing endverbatim block is
\* emitted as a Block token, after which normal tokenizing resumes; one
\* level only.
C14_VerbatimRegion ==
    /\ [][(LexStepping /\ in_tag /\ verbatim # <<>>) => InsideRule]_vars
    /\ [][(LexStepping /\ in_tag /\ verbatim = <<>>) => OpenRule]_vars
    /\ [][(LexStepping /\ ~in_tag) => verbatim' = verbatim]_vars

\* C14 witness: two verbatim openers and one endverbatim: the inner opener is
\* text, the first endverbatim has closed the region.
C14_Witness ==
    /\ phase = "lexed" /\ verbatim = <<>>
    /\ template_string = BlockOf(VerbatimWord) \o BlockOf(VerbatimWord)
                         \o BlockOf(<<"e", "n", "d">> \o VerbatimWord)
    /\ result = <<Token("BLOCK", VerbatimWord, <<>>, 1),
                  Token("TEXT", BlockOf(VerbatimWord), <<>>, 1),
                  Token("BLOCK", <<"e", "n", "d">> \o VerbatimWord, <<>>, 1)>>

---------------------------------------------------------------------------
(* Parser: django/template/base.py *)

RECURSIVE WordEnd(_, _)
WordEnd(s, i) == IF i > Len(s) \/ IsSpace(s[i]) THEN i - 1 ELSE WordEnd(s, i + 1)

WordOf(s) == SubSeq(s, 1, WordEnd(s, 1))

\* token.contents.split()[0]; <<>> stands for the IndexError of no word
FirstWord(contents) == WordOf(LStrip(contents))

NoToken == Token("NONE", <<>>, <<>>, 0)

\* A node: its class, must_be_first, node.token and its child nodelists
Node(kind, must_be_first, token, nodelists) ==
    [kind |-> kind, must_be_first |-> must_be_first, token |-> token,
     nodelists |-> nodelists]

TextNode(token) == Node("Text", FALSE, token, <<>>)
VariableNode(token) == Node("Variable", FALSE, token, <<>>)

\* The registered tags.  `if` parses a body up to else or endif, then, after
\* an else, a second body up to endif, and consumes the terminator; `extends`
\* returns a node with must_be_first set
IfNode(token, nodelist_true, nodelist_false) ==
    Node("If", FALSE, token, <<nodelist_true, nodelist_false>>)
ExtendsNode(token) == Node("Extends", TRUE, token, <<>>)

IfWord == <<"i", "f">>
ElseWord == <<"e", "l", "s", "e">>
EndifWord == <<"e", "n", "d", "i", "f">>
ExtendsWord == <<"e", "x", "t", "e", "n", "d", "s">>

\* Parser.tags
Tags == {IfWord, ExtendsWord}

\* One running call of Parser.parse: parse_until, the NodeList being built
\* and its contains_nontext, whether the call has returned, and the `if` tag
\* function that made the call: its token, which body is being parsed and
\* the first body once parsed
Parse(parse_until, nodelist, contains_nontext, state, opener, branch, saved) ==
    [parse_until |-> parse_until, nodelist |-> nodelist,
     contains_nontext |-> contains_nontext, state |-> state, opener |-> opener,
     branch |-> branch, saved |-> saved]

ParserState(toks, stack, calls_, st, e) ==
    [tokens |-> toks, command_stack |-> stack, parses |-> calls_, pstatus |-> st,
     perror |-> e]

Error(kind, command, line, expected, token) ==
    [kind |-> kind, command |-> command, lineno |-> line, expected |-> expected,
     token |-> token]

\* raise self.error(token, ...)
Fail(st, e) == [st EXCEPT !.pstatus = "error", !.perror = e]

\* Parser.error putting its token on every exception it is given
error_Overwrite(token, e) == [e EXCEPT !.token = token]

\* Parser.error (lines 548-559) for an exception: the token is attached
\* only if the exception has none yet
error(token, e) == IF e.token = NoToken THEN [e EXCEPT !.token = token] ELSE e

Range(seq) == {seq[i] : i \in 1..Len(seq)}

\* Parser.prepend_token putting the token at the end
prepend_token_AtEnd(toks, token) == toks \o <<token>>

\* Parser.prepend_token (lines 591-593)
prepend_token(toks, token) == <<token>> \o toks

\* Parser.extend_nodelist (lines 534-546) on the NodeList of call p
extend_nodelist(st, p, node, token) ==
    IF node.must_be_first /\ st.parses[p].contains_nontext
    THEN Fail(st, Error("must_be_first", <<>>, token.lineno, <<>>, token))
    ELSE [st EXCEPT !.parses[p].contains_nontext = @ \/ node.kind # "Text",
                    !.parses[p].nodelist = Append(@, node)]

\* Parser.invalid_block_tag naming no expected commands
invalid_block_tag_NoExpected(token, command, parse_until) ==
    Error("invalid_block_tag", command, token.lineno, <<>>, token)

\* Parser.invalid_block_tag (lines 561-576)
invalid_block_tag(token, command, parse_until) ==
    Error("invalid_block_tag", command, token.lineno, parse_until, token)

\* Parser.unclosed_block_tag reporting the outermost open block
unclosed_block_tag_Outermost(st, parse_until) ==
    IF st.command_stack = <<>> THEN Fail(st, Error("IndexError", <<>>, 0, <<>>, NoToken))
    ELSE Fail([st EXCEPT !.command_stack = Tail(@)],
              Error("unclosed_block_tag", st.command_stack[1].command,
                    st.command_stack[1].token.lineno, parse_until,
                    st.command_stack[1].token))

\* Parser.unclosed_block_tag (lines 578-585): command_stack.pop() is the
\* innermost open block
unclosed_block_tag(st, parse_until) ==
    IF st.command_stack = <<>> THEN Fail(st, Error("IndexError", <<>>, 0, <<>>, NoToken))
    ELSE Fail([st EXCEPT !.command_stack = SubSeq(@, 1, Len(@) - 1)],
              Error("unclosed_block_tag", st.command_stack[Len(st.command_stack)].command,
                    st.command_stack[Len(st.command_stack)].token.lineno, parse_until,
                    st.command_stack[Len(st.command_stack)].token))

\* self.command_stack.pop() after a tag compiled (line 520), not reached
\* when extend_nodelist raised
PopCommand(st) ==
    IF st.pstatus = "error" THEN st
    ELSE [st EXCEPT !.command_stack = SubSeq(@, 1, Len(@) - 1)]

\* Lines 514-520: compile_func(self, token) of a registered command.  `if`
\* calls parser.parse(('else', 'endif')); `extends` returns its node
CompileTag(st, token, command) ==
    IF command = IfWord
    THEN [st EXCEPT !.parses = Append(@, Parse(<<ElseWord, EndifWord>>, <<>>, FALSE,
                                               "active", token, 1, <<>>))]
    ELSE PopCommand(extend_nodelist(st, Len(st.parses), ExtendsNode(token), token))

\* Lines 504-520 for a command that is no stop command: st has it on the
\* command stack
Dispatch(st, token, command) ==
    IF command \notin Tags
    THEN Fail(st, invalid_block_tag(token, command,
                                    st.parses[Len(st.parses)].parse_until))
    ELSE CompileTag(st, token, command)

\* Lines 487-520 for a BLOCK token already taken from the queue
BlockToken(st, token, command) ==
    IF command = <<>>
    THEN Fail(st, Error("empty_block_tag", <<>>, token.lineno, <<>>, token))
    ELSE IF command \in Range(st.parses[Len(st.parses)].parse_until)
    THEN [st EXCEPT !.tokens = prepend_token(@, token),
                    !.parses[Len(st.parses)].state = "returned"]
    ELSE Dispatch([st EXCEPT !.command_stack =
                        Append(@, [command |-> command, token |-> token])],
                  token, command)

---------------------------------------------------------------------------
(* Parser.compile_filter: FilterExpression.__init__ and filter_re *)

WordChars == Range(LowerLetters) \cup Range(UpperLetters) \cup Range(DigitChars) \cup {"_"}
VarChars == WordChars \cup {"."}
NumChars == Range(DigitChars) \cup {".", "e"}
SpaceChars == {" ", "\n", "\t"}

\* The character at position i, "" beyond the text
At(s, i) == IF i >= 1 /\ i <= Len(s) THEN s[i] ELSE ""

\* The position after the run of characters of cs that starts at i
RECURSIVE RunEnd(_, _, _)
RunEnd(s, i, cs) == IF i <= Len(s) /\ s[i] \in cs THEN RunEnd(s, i + 1, cs) ELSE i

\* strdq and strsq (lines 623-624) from inside the quotes: the position after
\* the closing quote q, a backslash taking the next character with it; 0 when
\* the string is not closed
RECURSIVE QuotedEnd(_, _, _)
QuotedEnd(s, i, q) ==
    IF i > Len(s) THEN 0
    ELSE IF s[i] = q THEN i + 1
    ELSE IF s[i] = "\\"
    THEN IF i + 1 > Len(s) \/ s[i + 1] = "\n" THEN 0 ELSE QuotedEnd(s, i + 2, q)
    ELSE QuotedEnd(s, i + 1, q)

StringEnd(s, i) == IF At(s, i) \in {"\"", "'"} THEN QuotedEnd(s, i + 1, s[i]) ELSE 0

ClosedAt(s, e) == IF e > 0 /\ At(s, e) = ")" THEN e + 1 ELSE 0

\* constant_string (lines 616-628) at position i: the position after it, 0
\* when it does not match
ConstantEnd(s, i) ==
    IF At(s, i) = "_" /\ At(s, i + 1) = "(" THEN ClosedAt(s, StringEnd(s, i + 2))
    ELSE StringEnd(s, i)

\* [\w.]+ or a number [-+.]?\d[\d.e]* at position i (lines 633, 643-644)
VarEnd(s, i) ==
    IF At(s, i) \in VarChars THEN RunEnd(s, i, VarChars)
    ELSE IF At(s, i) \in {"-", "+"} /\ At(s, i + 1) \in Range(DigitChars)
    THEN RunEnd(s, i + 2, NumChars)
    ELSE 0

\* A match of filter_re: match.start(), match.end() and its groups
FMatch(start, end, kind, name, argkind, arg) ==
    [start |-> start, end |-> end, kind |-> kind, name |-> name, argkind |-> argkind,
     arg |-> arg]

NoMatch == FMatch(0, 0, "none", <<>>, "none", <<>>)

\* Lines 634-642 from the filter name, which starts at k and ends before n
FilterArg(s, i, k, n) ==
    IF At(s, n) = ":" /\ ConstantEnd(s, n + 1) > 0
    THEN FMatch(i - 1, ConstantEnd(s, n + 1) - 1, "filter", SubSeq(s, k, n - 1), "constant",
                SubSeq(s, n + 1, ConstantEnd(s, n + 1) - 1))
    ELSE IF At(s, n) = ":" /\ VarEnd(s, n + 1) > 0
    THEN FMatch(i - 1, VarEnd(s, n + 1) - 1, "filter", SubSeq(s, k, n - 1), "var",
                SubSeq(s, n + 1, VarEnd(s, n + 1) - 1))
    ELSE FMatch(i - 1, n - 1, "filter", SubSeq(s, k, n - 1), "none", <<>>)

FilterName(s, i, k) ==
    IF At(s, k) \in WordChars THEN FilterArg(s, i, k, RunEnd(s, k, WordChars)) ELSE NoMatch

FilterBar(s, i, j) ==
    IF At(s, j) = "|" THEN FilterName(s, i, RunEnd(s, j + 1, SpaceChars)) ELSE NoMatch

\* filter_re (lines 630-649) tried at position i: the constant and the
\* variable alternatives are anchored at the start of the text
MatchAt(s, i) ==
    IF i = 1 /\ ConstantEnd(s, 1) > 0
    THEN FMatch(0, ConstantEnd(s, 1) - 1, "constant", <<>>, "none",
                SubSeq(s, 1, ConstantEnd(s, 1) - 1))
    ELSE IF i = 1 /\ VarEnd(s, 1) > 0
    THEN FMatch(0, VarEnd(s, 1) - 1, "var", <<>>, "none", SubSeq(s, 1, VarEnd(s, 1) - 1))
    ELSE FilterBar(s, i, RunEnd(s, i, SpaceChars))

\* The next match of filter_re.finditer: the leftmost from position i on
RECURSIVE Search(_, _)
Search(s, i) ==
    IF i > Len(s) THEN NoMatch
    ELSE IF MatchAt(s, i) # NoMatch THEN MatchAt(s, i)
    ELSE Search(s, i + 1)

RECURSIVE FilterExpression_init(_, _, _, _)

\* Lines 687-697: the first match gives the variable
FirstMatch(s, fm, registered) ==
    CASE fm.kind = "constant" -> FilterExpression_init(s, fm.end, TRUE, registered)
      [] fm.kind = "filter" -> "no_variable"
      [] OTHER -> IF Variable_init(fm.arg).cstatus # "compiled" THEN "variable"
                  ELSE FilterExpression_init(s, fm.end, TRUE, registered)

\* Lines 698-711: a later match gives a filter; its argument is compiled,
\* the filter looked up with Parser.find_filter (lines 609-613) and its
\* arguments checked
FilterMatch(s, fm, registered) ==
    IF fm.argkind = "var" /\ Variable_init(fm.arg).cstatus # "compiled" THEN "variable"
    ELSE IF fm.name \notin DOMAIN registered THEN "invalid_filter"
    ELSE IF args_check(registered[fm.name], IF fm.argkind = "none" THEN 0 ELSE 1)
            # "compiled"
    THEN "args_check"
    ELSE FilterExpression_init(s, fm.end, TRUE, registered)

\* One round of the loop of lines 679-712 with fm the next match, and lines
\* 713-715 when there is none
AfterSearch(s, done_to, var_set, registered, fm) ==
    IF fm = NoMatch THEN IF done_to # Len(s) THEN "remainder" ELSE "ok"
    ELSE IF fm.start # done_to THEN "some_characters"
    ELSE IF ~var_set THEN FirstMatch(s, fm, registered)
    ELSE FilterMatch(s, fm, registered)

\* FilterExpression.__init__ (lines 673-718) from offset done_to (`upto`) of the token:
\* "ok", or which TemplateSyntaxError is raised
FilterExpression_init(s, done_to, var_set, registered) ==
    AfterSearch(s, done_to, var_set, registered, Search(s, done_to + 1))

\* Parser.compile_filter (lines 603-607)
compile_filter(contents, registered) == FilterExpression_init(contents, 0, FALSE, registered)

\* Parser.filters of a parser built without libraries
NoFilters == [name \in {} |-> Signature(1, 0, FALSE, FALSE)]

\* Lines 478-485 for a VAR token with contents
VarToken(st, token, compiled_as) ==
    IF compiled_as # "ok"
    THEN Fail(st, Error(compiled_as, <<>>, token.lineno, <<>>, token))
    ELSE extend_nodelist(st, Len(st.parses), VariableNode(token), token)

\* Parser.skip_past (lines 527-532): tokens are dropped up to and with the
\* block token whose contents are endtag; without one, unclosed_block_tag
RECURSIVE skip_past(_, _)
skip_past(st, endtag) ==
    IF st.tokens = <<>> THEN unclosed_block_tag(st, <<endtag>>)
    ELSE IF Head(st.tokens).token_type = "BLOCK" /\ Head(st.tokens).contents = endtag
    THEN [st EXCEPT !.tokens = Tail(@)]
    ELSE skip_past([st EXCEPT !.tokens = Tail(@)], endtag)

\* Lines 471-520: one iteration of the loop, st being after next_token(); a
\* COMMENT token matches no branch and is dropped
ParseToken(st, token) ==
    CASE token.token_type = "TEXT" ->
            extend_nodelist(st, Len(st.parses), TextNode(token), token)
      [] token.token_type = "VAR" ->
            IF token.contents = <<>>
            THEN Fail(st, Error("empty_variable_tag", <<>>, token.lineno, <<>>, token))
            ELSE VarToken(st, token, compile_filter(token.contents, NoFilters))
      [] token.token_type = "BLOCK" -> BlockToken(st, token, FirstWord(token.contents))
      [] OTHER -> st

\* Lines 523-525: the queue is empty
ParseEnd(st, p) ==
    IF st.parses[p].parse_until # <<>> THEN unclosed_block_tag(st, st.parses[p].parse_until)
    ELSE [st EXCEPT !.parses[p].state = "returned",
                    !.pstatus = IF p = 1 THEN "done" ELSE @]

\* The `if` tag function once its last body is parsed: the node is returned
\* to the parse that dispatched the tag (lines 518-520)
ReturnIf(st, p, node) ==
    PopCommand(extend_nodelist([st EXCEPT !.parses = SubSeq(@, 1, p - 1)], p - 1, node,
                               st.parses[p].opener))

\* The `if` tag function after a parse it called has returned: it takes the
\* terminator from the queue; after `else` in the first body it parses the
\* second body up to endif
ResumeIf(st, p, token) ==
    IF st.parses[p].branch = 1 /\ token.contents = ElseWord
    THEN [st EXCEPT !.parses[p] = Parse(<<EndifWord>>, <<>>, FALSE, "active",
                                        st.parses[p].opener, 2, st.parses[p].nodelist)]
    ELSE IF st.parses[p].branch = 1
    THEN ReturnIf(st, p, IfNode(st.parses[p].opener, st.parses[p].nodelist, <<>>))
    ELSE ReturnIf(st, p, IfNode(st.parses[p].opener, st.parses[p].saved,
                                st.parses[p].nodelist))

\* An exception leaves parse call p and the tag function that made the call,
\* which does not catch it; the parse that dispatched the tag catches it and
\* raises self.error(token, e) with the tag's token (lines 514-517)
Reraise(st, p) ==
    [st EXCEPT !.parses = SubSeq(@, 1, p - 1), !.perror = error(st.parses[p].opener, @)]

\* The parser as a machine: Template.compile_nodelist (lines 184-209) hands
\* the lexer's tokens to Parser.parse().  `parses` is the stack of running
\* parse calls, the first being compile_nodelist's.

FooWord == <<"f", "o", "o">>

\* Token kinds of a template: text, a variable, a variable tag that does not
\* compile, a comment, the registered tags with
\* their terminators, and a block tag nobody registered
TokenShapes ==
    {<<"TEXT", <<"a">>>>, <<"VAR", <<"x">>>>, <<"VAR", <<"x", " ", "y">>>>,
     <<"COMMENT", <<"c">>>>, <<"BLOCK", IfWord>>, <<"BLOCK", ElseWord>>,
     <<"BLOCK", EndifWord>>, <<"BLOCK", ExtendsWord>>, <<"BLOCK", FooWord>>}

\* Every token on a line of its own
TokensOf(shapes) ==
    [i \in 1..Len(shapes) |-> Token(shapes[i][1], shapes[i][2], <<>>, i)]

TokenLists == {TokensOf(sh) : sh \in UNION {[1..n -> TokenShapes] : n \in 0..MaxTokens}}

ParseInit ==
    /\ LookupIdle /\ dicts = <<builtins>> /\ string_if_invalid = StrV(<<>>, FALSE)
    /\ FilterIdle
    /\ CompileIdle
    /\ ArgsIdle
    /\ LexIdle
    /\ CtxIdle
    /\ WithIdle
    /\ RenderIdle
    /\ tokens \in TokenLists
    /\ command_stack = <<>>
    /\ parses = <<Parse(<<>>, <<>>, FALSE, "active", NoToken, 0, <<>>)>>
    /\ pstatus = "parsing"
    /\ perror = NoError

CurParser == ParserState(tokens, command_stack, parses, pstatus, perror)

SetParser(st) ==
    /\ tokens' = st.tokens
    /\ command_stack' = st.command_stack
    /\ parses' = st.parses
    /\ pstatus' = st.pstatus
    /\ perror' = st.perror

Running == pstatus = "parsing" /\ parses[Len(parses)].state = "active"

\* One iteration of `while self.tokens` (lines 470-520)
ParseLoop ==
    /\ Running
    /\ tokens # <<>>
    /\ SetParser(ParseToken(ParserState(Tail(tokens), command_stack, parses, pstatus,
                                        perror), Head(tokens)))
    /\ UNCHANGED restOfParse

\* The loop ends with the queue empty (lines 523-525)
ParseReturn ==
    /\ Running
    /\ tokens = <<>>
    /\ SetParser(ParseEnd(CurParser, Len(parses)))
    /\ UNCHANGED restOfParse

\* The tag function that called parse() goes on: parser.next_token() takes
\* the terminator
TagReturn ==
    /\ pstatus = "parsing"
    /\ Len(parses) > 1
    /\ parses[Len(parses)].state = "returned"
    /\ SetParser(ResumeIf(ParserState(Tail(tokens), command_stack, parses, pstatus,
                                      perror), Len(parses), Head(tokens)))
    /\ UNCHANGED restOfParse

\* The exception raised in a parse called by a tag function reaches the
\* except clause of the enclosing parse (lines 516-517)
TagRaise ==
    /\ pstatus = "error"
    /\ Len(parses) > 1
    /\ SetParser(Reraise(CurParser, Len(parses)))
    /\ UNCHANGED restOfParse

\* Parser.skip_past(endtag) is called while the parser is between two tokens
SkipPast ==
    /\ Running
    /\ \E endtag \in {EndifWord} : SetParser(skip_past(CurParser, endtag))
    /\ UNCHANGED restOfParse

ParseNext == ParseLoop \/ ParseReturn \/ TagReturn \/ TagRaise \/ SkipPast

SpecParse == ParseInit /\ [][ParseNext]_vars

\* Properties of the parser

TopParse == parses[Len(parses)]

\* The loop is about to take a block token with this command
AtBlock == Running /\ tokens # <<>> /\ Head(tokens).token_type = "BLOCK"

AtCommand == FirstWord(Head(tokens).contents)

AtStopCommand == AtBlock /\ AtCommand \in Range(TopParse.parse_until)

\* C15: when parse(stop_commands) meets a block token whose command is one
\* of its stop commands it returns the nodes built so far and leaves that
\* token at the front of the queue with the remaining tokens untouched
\* behind it; the terminator is not compiled (no node is appended, no error
\* raised) and has no entry on the open-block stack.
C15_StopCommandReturns ==
    [][AtStopCommand /\ ParseLoop =>
         /\ tokens' = tokens
         /\ parses' = [parses EXCEPT ![Len(parses)].state = "returned"]
         /\ command_stack' = command_stack
         /\ \A i \in 1..Len(command_stack') : command_stack'[i].token # Head(tokens)
         /\ pstatus' = "parsing" /\ perror' = perror]_vars

\* C15 witness: the body of an `if` has returned its one node at endif, which
\* heads the queue with a further token behind it.
C15_Witness ==
    /\ pstatus = "parsing" /\ Len(parses) = 2 /\ TopParse.state = "returned"
    /\ Len(TopParse.nodelist) = 1
    /\ Len(tokens) = 2 /\ tokens[1].contents = EndifWord
    /\ command_stack = <<[command |-> IfWord, token |-> TopParse.opener]>>

\* The queue has run out inside a parse with stop commands
AtUnclosed == Running /\ tokens = <<>> /\ TopParse.parse_until # <<>>

\* C16: when the queue runs out while a parse with stop commands is active,
\* compilation fails with an 'unclosed tag' error naming the command and line
\* of the innermost open block: the top of the open-block stack, which is the
\* tag whose body the innermost parse was reading, at any nesting depth.
C16_UnclosedInnermost ==
    [][AtUnclosed /\ ParseReturn =>
         /\ command_stack # <<>>
         /\ command_stack[Len(command_stack)].token = TopParse.opener
         /\ pstatus' = "error"
         /\ perror' = Error("unclosed_block_tag", FirstWord(TopParse.opener.contents),
                            TopParse.opener.lineno, TopParse.parse_until,
                            TopParse.opener)]_vars

\* C16 witness: two nested blocks were open; the error names the inner one,
\* on line 2, and the outer one is still on the stack.
C16_Witness ==
    /\ pstatus = "error" /\ perror.kind = "unclosed_block_tag"
    /\ Len(parses) = 3 /\ perror.lineno = 2 /\ perror.token = TopParse.opener
    /\ Len(command_stack) = 1 /\ command_stack[1].token.lineno = 1

AtInvalid ==
    /\ AtBlock /\ AtCommand # <<>>
    /\ AtCommand \notin Range(TopParse.parse_until) /\ AtCommand \notin Tags

\* C17: a block token whose command is neither a stop command of the running
\* parse nor a registered tag fails compilation with an 'invalid block tag'
\* error naming the command and the token's line, listing the expected stop
\* commands when there are any, and carrying that token; no node is appended
\* for it.
C17_InvalidBlockTag ==
    [][AtInvalid /\ ParseLoop =>
         /\ pstatus' = "error"
         /\ perror' = Error("invalid_block_tag", AtCommand, Head(tokens).lineno,
                            TopParse.parse_until, Head(tokens))
         /\ Len(parses') = Len(parses)
         /\ \A p \in 1..Len(parses) : parses'[p].nodelist = parses[p].nodelist]_vars

\* C17 witness: an unregistered tag on line 3 inside the body of an `if`
\* that already holds a node; the error lists else and endif.
C17_Witness ==
    /\ pstatus = "error" /\ perror.kind = "invalid_block_tag"
    /\ perror.command = FooWord /\ perror.lineno = 3 /\ perror.token.contents = FooWord
    /\ perror.expected = <<ElseWord, EndifWord>>
    /\ Len(parses) = 2 /\ Len(TopParse.nodelist) = 1

C28_Attached ==
    (pstatus = "error" /\ perror.kind # "IndexError") =>
        /\ perror.token # NoToken
        /\ perror.token.lineno = perror.lineno

\* C28: the error of a compile failure inside nested parse calls keeps, on
\* its way out through every enclosing parse, the token attached where it was
\* raised (the token of the line the message names); the error that reaches
\* the caller of the outermost parse carries that token, not the token of an
\* enclosing block.
C28_InnermostToken ==
    /\ []C28_Attached
    /\ [][pstatus = "error" => (pstatus' = "error" /\ perror' = perror)]_vars

\* C28 witness: an unregistered tag on line 3, inside two nested `if`
\* blocks, has failed; the error has left both enclosing parse calls and
\* still carries the token of line 3.
C28_Witness ==
    /\ pstatus = "error" /\ Len(parses) = 1
    /\ Len(command_stack) = 3
    /\ perror.kind = "invalid_block_tag" /\ perror.token.lineno = 3
    /\ perror.token.contents = FooWord

HasNonText(nodelist) == \E i \in 1..Len(nodelist) : nodelist[i].kind # "Text"

\* Some must-be-first node of the list, or of a block body below it, comes
\* after a non-text node of the template; `seen` says that one precedes the
\* list.  The blocks that enclose a node are not counted against it.
RECURSIVE Misplaced(_, _)
RECURSIVE MisplacedIn(_, _)
Misplaced(nodelist, seen) ==
    IF nodelist = <<>> THEN FALSE
    ELSE \/ Head(nodelist).must_be_first /\ seen
         \/ MisplacedIn(Head(nodelist).nodelists, seen)
         \/ Misplaced(Tail(nodelist), seen \/ Head(nodelist).kind # "Text")
MisplacedIn(nodelists, seen) ==
    IF nodelists = <<>> THEN FALSE
    ELSE \/ Misplaced(Head(nodelists), seen)
         \/ MisplacedIn(Tail(nodelists), seen \/ HasNonText(Head(nodelists)))

\* C18: in every successfully compiled template a must-be-first node is the
\* very first non-text content of the template, wherever it stands (top
\* level or inside a block body).
C18_MustBeFirst ==
    pstatus = "done" => ~Misplaced(parses[1].nodelist, FALSE)

---------------------------------------------------------------------------
(* Context: django/template/context.py *)

\* What an operation on a context leaves: the frames, the exception raised
\* ("none" if it returned) and the value returned
CtxResult(frames, raised, ret) == [dicts |-> frames, raised |-> raised, ret |-> ret]

\* d[key] = value and del d[key] on a dict
SetKey(d, key, value) == (key :> value) @@ d
DelKey(d, key) == [k \in DOMAIN d \ {key} |-> d[k]]

\* BaseContext._reset_dicts (lines 38-42): value is <<>> for None, else <<d>>
reset_dicts(value) == <<builtins>> \o value

\* ContextDict.__init__ (lines 20-24): dict(*args) is {} or a copy of the one
\* mapping given, and raises TypeError for more than one argument; the new
\* dict is appended to context.dicts
ContextDict(frames, args) ==
    IF Len(args) > 1 THEN CtxResult(frames, "TypeError", NoneV)
    ELSE IF args = <<>> THEN CtxResult(Append(frames, EmptyMap), "none", EmptyMap)
    ELSE CtxResult(Append(frames, args[1]), "none", args[1])

\* BaseContext.push (lines 55-64) with mappings as arguments
push(frames, args) == ContextDict(frames, args)

\* Context.update (lines 178-184) with a mapping
update(frames, other_dict) == ContextDict(frames, <<other_dict>>)

\* BaseContext.pop taking the frame next to the builtins frame
pop_Lowest(frames) ==
    IF Len(frames) = 1 THEN CtxResult(frames, "ContextPopException", NoneV)
    ELSE CtxResult(<<frames[1]>> \o SubSeq(frames, 3, Len(frames)), "none", frames[2])

\* BaseContext.pop (lines 66-69)
pop(frames) ==
    IF Len(frames) = 1 THEN CtxResult(frames, "ContextPopException", NoneV)
    ELSE CtxResult(SubSeq(frames, 1, Len(frames) - 1), "none", frames[Len(frames)])

\* BaseContext.__setitem__ (lines 71-74)
setitem(frames, key, value) ==
    CtxResult([frames EXCEPT ![Len(frames)] = SetKey(@, key, value)], "none", NoneV)

\* The lowest frame that has the key, 0 if none has
RECURSIVE LowestWith(_, _, _)
LowestWith(frames, key, i) ==
    IF i > Len(frames) THEN 0
    ELSE IF key \in DOMAIN frames[i] THEN i ELSE LowestWith(frames, key, i + 1)

\* The frame search of set_upward finding the lowest frame instead
HighestWith_Lowest(frames, key, i) == LowestWith(frames, key, 1)

\* The highest frame that has the key, 0 if none has
RECURSIVE HighestWith(_, _, _)
HighestWith(frames, key, i) ==
    IF i = 0 \/ key \in DOMAIN frames[i] THEN i ELSE HighestWith(frames, key, i - 1)

UpwardFrame(frames, i) == IF i = 0 THEN Len(frames) ELSE i

\* BaseContext.set_upward (lines 76-87)
set_upward(frames, key, value) ==
    CtxResult([frames EXCEPT ![UpwardFrame(frames, HighestWith(frames, key, Len(frames)))] =
                   SetKey(@, key, value)], "none", NoneV)

\* BaseContext.__delitem__ (lines 97-100)
delitem(frames, key) ==
    IF key \in DOMAIN frames[Len(frames)]
    THEN CtxResult([frames EXCEPT ![Len(frames)] = DelKey(@, key)], "none", NoneV)
    ELSE CtxResult(frames, "KeyError", NoneV)

\* BaseContext.setdefault (lines 111-116)
setdefault(frames, key, default) ==
    IF BaseContext_getitem(frames, key).ok
    THEN CtxResult(frames, "none", BaseContext_getitem(frames, key).v)
    ELSE CtxResult(setitem(frames, key, default).dicts, "none", default)

\* BaseContext.__getitem__ (lines 89-95) as a call
getitem(frames, key) ==
    IF BaseContext_getitem(frames, key).ok
    THEN CtxResult(frames, "none", BaseContext_getitem(frames, key).v)
    ELSE CtxResult(frames, "KeyError", NoneV)

\* BaseContext.get (lines 105-109)
get(frames, key, otherwise) == CtxResult(frames, "none", FrameOrElse(frames, key, Len(frames), otherwise))

\* BaseContext.__contains__ (lines 102-103)
contains(frames, key) == \E i \in 1..Len(frames) : key \in DOMAIN frames[i]

\* dict.update(d): the keys of d replace those of flat
DictUpdate(flat, d) == d @@ flat

RECURSIVE FlattenFrom(_, _, _)
FlattenFrom(frames, i, flat) ==
    IF i > Len(frames) THEN flat
    ELSE FlattenFrom(frames, i + 1, DictUpdate(flat, frames[i]))

RECURSIVE FlattenDown(_, _, _)
FlattenDown(frames, i, flat) ==
    IF i = 0 THEN flat ELSE FlattenDown(frames, i - 1, DictUpdate(flat, frames[i]))

\* BaseContext.flatten updating from the top frame down
flatten_TopFirst(frames) == CtxResult(frames, "none", FlattenDown(frames, Len(frames), EmptyMap))

\* BaseContext.flatten (lines 127-135)
flatten(frames) == CtxResult(frames, "none", FlattenFrom(frames, 1, EmptyMap))

\* The context as a machine: a Context is constructed, with or without a
\* dict, and its operations are called in any order.

Keys == {"True", "a"}
Values == {IntV(1), IntV(2)}

\* The mappings given to the constructor, push and update
Mappings == {EmptyMap} \cup {k :> v : k \in Keys, v \in Values}

\* Argument lists of push: none, one mapping, two
PushArgs == {<<>>} \cup {<<d>> : d \in Mappings} \cup {<<("a" :> IntV(1)), ("a" :> IntV(2))>>}

ContextInit ==
    /\ LookupIdle /\ string_if_invalid = StrV(<<>>, FALSE)
    /\ FilterIdle
    /\ CompileIdle
    /\ ArgsIdle
    /\ LexIdle
    /\ ParseIdle
    /\ WithIdle
    /\ RenderIdle
    /\ dicts \in {reset_dicts(<<>>)} \cup {reset_dicts(<<d>>) : d \in Mappings}
    /\ ctx_op = "none"
    /\ ctx_args = <<>>
    /\ ctx_raised = "none"
    /\ ctx_ret = NoneV
    /\ pushed = Len(dicts) - 1
    /\ popped = 0

\* The call op has left res; np frames were pushed
Called(op, args, res, np) ==
    /\ ctx_op' = op
    /\ ctx_args' = args
    /\ dicts' = res.dicts
    /\ ctx_raised' = res.raised
    /\ ctx_ret' = res.ret
    /\ pushed' = pushed + np
    /\ popped' = IF op = "pop" /\ res.raised = "none" THEN popped + 1 ELSE popped
    /\ UNCHANGED restOfCtx

Push ==
    /\ pushed < MaxPushes
    /\ \E args \in PushArgs :
         Called("push", args, push(dicts, args), Len(push(dicts, args).dicts) - Len(dicts))

Update ==
    /\ pushed < MaxPushes
    /\ \E d \in Mappings : Called("update", <<d>>, update(dicts, d), 1)

Pop == Called("pop", <<>>, pop(dicts), 0)

SetItem == \E k \in Keys, v \in Values : Called("setitem", <<k, v>>, setitem(dicts, k, v), 0)

DelItem == \E k \in Keys : Called("delitem", <<k>>, delitem(dicts, k), 0)

SetDefault == \E k \in Keys, v \in Values : Called("setdefault", <<k, v>>, setdefault(dicts, k, v), 0)

SetUpward == \E k \in Keys, v \in Values : Called("set_upward", <<k, v>>, set_upward(dicts, k, v), 0)

\* The keys asked for: those written, and a builtin never written
ReadKeys == Keys \cup {"None"}

ItemOf == \E k \in ReadKeys : Called("getitem", <<k>>, getitem(dicts, k), 0)

GetOr == \E k \in ReadKeys, v \in {IntV(0)} : Called("get", <<k, v>>, get(dicts, k, v), 0)

Flatten == Called("flatten", <<>>, flatten(dicts), 0)

ContextNext ==
    \/ Push \/ Update \/ Pop \/ SetItem \/ DelItem \/ SetDefault \/ SetUpward
    \/ ItemOf \/ GetOr \/ Flatten

SpecContext == ContextInit /\ [][ContextNext]_vars

\* Properties of the context

\* C19: in every state reachable by push, pop, update, item assignment, item
\* deletion, setdefault and set_upward, the bottom frame of the stack is the
\* builtins frame mapping 'True', 'False' and 'None' to true, false and null,
\* and it is never removed from the stack.
C19_BuiltinsAtBottom == Len(dicts) >= 1 /\ dicts[1] = builtins

\* C20: pop() on a stack holding only the builtins frame raises
\* ContextPopException and leaves the stack unchanged; on a deeper stack it
\* removes and returns exactly the top frame; so the successful pops never
\* outnumber the frames put on the stack (by the constructor's dict, push
\* and update): the frames above the bottom one are those put and not popped.
C20_PopBalanced ==
    /\ [](popped <= pushed /\ Len(dicts) = 1 + pushed - popped)
    /\ [][(ctx_op' = "pop" /\ Len(dicts) = 1) =>
            (ctx_raised' = "ContextPopException" /\ dicts' = dicts /\ popped' = popped)]_vars
    /\ [][(ctx_op' = "pop" /\ Len(dicts) > 1) =>
            /\ ctx_raised' = "none"
            /\ ctx_ret' = dicts[Len(dicts)]
            /\ dicts' \o <<ctx_ret'>> = dicts
            /\ popped' = popped + 1]_vars

\* C20 witness: two frames were put on the stack, both were popped, and a
\* further pop has raised.
C20_Witness ==
    /\ ctx_op = "pop" /\ ctx_raised = "ContextPopException"
    /\ pushed = 2 /\ popped = 2 /\ Len(dicts) = 1

\* Frame i is the topmost frame that defines key k
Topmost(frames, k, i) ==
    /\ i \in 1..Len(frames)
    /\ k \in DOMAIN frames[i]
    /\ \A j \in (i + 1)..Len(frames) : k \notin DOMAIN frames[j]

Defined(frames, k) == \E i \in 1..Len(frames) : k \in DOMAIN frames[i]

\* C21: ctx[k] and ctx.get(k, default) return the value of k in the topmost
\* frame that defines k; ctx[k] raises KeyError and get returns its default
\* exactly when no frame defines k; neither changes the stack.
C21_TopmostWins ==
    /\ [][ctx_op' = "getitem" =>
            /\ dicts' = dicts
            /\ ctx_raised' = (IF Defined(dicts, ctx_args'[1]) THEN "none" ELSE "KeyError")
            /\ \A i \in 1..Len(dicts) :
                 Topmost(dicts, ctx_args'[1], i) => ctx_ret' = dicts[i][ctx_args'[1]]]_vars
    /\ [][ctx_op' = "get" =>
            /\ dicts' = dicts
            /\ ctx_raised' = "none"
            /\ ~Defined(dicts, ctx_args'[1]) => ctx_ret' = ctx_args'[2]
            /\ \A i \in 1..Len(dicts) :
                 Topmost(dicts, ctx_args'[1], i) => ctx_ret' = dicts[i][ctx_args'[1]]]_vars

\* C21 witness: "a" is 1 in a lower frame and 2 in the top frame, and ctx["a"]
\* has returned 2.
C21_Witness ==
    /\ ctx_op = "getitem" /\ ctx_args = <<"a">> /\ ctx_raised = "none" /\ ctx_ret = IntV(2)
    /\ Len(dicts) = 3 /\ "a" \in DOMAIN dicts[2] /\ dicts[2]["a"] = IntV(1)
    /\ "a" \in DOMAIN dicts[3]

\* The arguments of push merged in argument order, a later one winning
RECURSIVE Merged(_, _)
Merged(ms, i) == IF i = 0 THEN EmptyMap ELSE ms[i] @@ Merged(ms, i - 1)

\* C22: push(m1, ..., mn), for any n >= 0, adds exactly one new top frame
\* holding the mappings merged in argument order, and leaves the lower frames
\* unchanged.
C22_PushMerges ==
    [][ctx_op' = "push" =>
         /\ ctx_raised' = "none"
         /\ dicts' = Append(dicts, Merged(ctx_args', Len(ctx_args')))]_vars

\* The frames other than i, and the keys of frame i other than k, are as
\* they were
OnlyChanged(old, new, i, k) ==
    /\ Len(new) = Len(old)
    /\ \A j \in 1..Len(old) : j # i => new[j] = old[j]
    /\ DOMAIN new[i] = DOMAIN old[i] \cup {k}
    /\ \A k2 \in DOMAIN old[i] : k2 # k => new[i][k2] = old[i][k2]

\* C24: set_upward(k, v) writes v into the highest frame that already defines
\* k, or into the top frame when none does; no other frame and no other key
\* changes, and afterwards ctx[k] is v.
C24_SetUpward ==
    [][ctx_op' = "set_upward" =>
         /\ ctx_raised' = "none"
         /\ \A i \in 1..Len(dicts) :
              Topmost(dicts, ctx_args'[1], i) =>
                 /\ dicts'[i][ctx_args'[1]] = ctx_args'[2]
                 /\ OnlyChanged(dicts, dicts', i, ctx_args'[1])
         /\ ~Defined(dicts, ctx_args'[1]) =>
                 /\ dicts'[Len(dicts)][ctx_args'[1]] = ctx_args'[2]
                 /\ OnlyChanged(dicts, dicts', Len(dicts), ctx_args'[1])
         /\ BaseContext_getitem(dicts', ctx_args'[1]) = Found(ctx_args'[2])]_vars

\* C24 witness: "a" was defined in the middle frame only, and set_upward has
\* written 2 there, not into the top frame.
C24_Witness ==
    /\ ctx_op = "set_upward" /\ ctx_args = <<"a", IntV(2)>>
    /\ Len(dicts) = 3 /\ "a" \notin DOMAIN dicts[3]
    /\ "a" \in DOMAIN dicts[2] /\ dicts[2]["a"] = IntV(2)

\* Every key a frame can hold
AllKeys == Keys \cup DOMAIN builtins

\* C30: flatten() agrees with lookup: a key is in flatten() exactly when it
\* is in the context, and flatten()[k] is ctx[k].
C30_FlattenAgrees ==
    [][ctx_op' = "flatten" =>
         /\ dicts' = dicts
         /\ DOMAIN ctx_ret' \subseteq AllKeys
         /\ \A k \in AllKeys :
              /\ (k \in DOMAIN ctx_ret') = contains(dicts, k)
              /\ k \in DOMAIN ctx_ret' => getitem(dicts, k) = CtxResult(dicts, "none", ctx_ret'[k])]_vars

\* C30 witness: "a" is 1 in a lower frame and 2 in the top frame; flatten()
\* has returned a dict with "a" 2 and the builtins.
C30_Witness ==
    /\ ctx_op = "flatten" /\ Len(dicts) = 3
    /\ "a" \in DOMAIN dicts[2] /\ dicts[2]["a"] = IntV(1)
    /\ "a" \in DOMAIN dicts[3] /\ dicts[3]["a"] = IntV(2)
    /\ ctx_ret = ("a" :> IntV(2)) @@ dicts[1]

---------------------------------------------------------------------------
(* The handle of push as a with-block: ContextDict.__enter__ / __exit__ *)

\* ContextDict.__exit__ popping only when the body returned
ContextDict_exit_OnReturn(frames, raising) ==
    IF raising # "none" THEN CtxResult(frames, "none", NoneV)
    ELSE CtxResult(pop(frames).dicts, pop(frames).raised, NoneV)

\* ContextDict.__exit__ (lines 29-30): self.context.pop(), whatever the
\* exception information passed; the popped frame is dropped and None
\* returned, so an exception of the body goes on propagating
ContextDict_exit(frames, raising) == CtxResult(pop(frames).dicts, pop(frames).raised, NoneV)

\* A with-block entered on a handle: the dict objects on the stack before the
\* push, and whether the stack has since stayed above them
WithBlock(before, nested) == [before |-> before, nested |-> nested]

\* The stack has now n frames: the blocks it no longer stays above
MarkBelow(blocks, n) ==
    [i \in 1..Len(blocks) |-> WithBlock(blocks[i].before,
                                        blocks[i].nested /\ n > Len(blocks[i].before))]

\* The dict objects left on the stack by a call that left n frames, fresh
\* being the object a push creates
IdsAfter(ids, n, fresh) ==
    IF n > Len(ids) THEN Append(ids, fresh) ELSE SubSeq(ids, 1, n)

WithInit ==
    /\ LookupIdle /\ string_if_invalid = StrV(<<>>, FALSE)
    /\ FilterIdle
    /\ CompileIdle
    /\ ArgsIdle
    /\ LexIdle
    /\ ParseIdle
    /\ RenderIdle
    /\ dicts \in {reset_dicts(<<>>)} \cup {reset_dicts(<<d>>) : d \in Mappings}
    /\ ctx_op = "none"
    /\ ctx_args = <<>>
    /\ ctx_raised = "none"
    /\ ctx_ret = NoneV
    /\ pushed = Len(dicts) - 1
    /\ popped = 0
    /\ frame_ids = [i \in 1..Len(dicts) |-> i - 1]
    /\ with_blocks = <<>>
    /\ body_exc = "none"

\* A call made in a with-block body or outside any: blocks are the with-blocks
\* open after it
InBody(op, args, res, blocks) ==
    /\ ctx_op' = op
    /\ ctx_args' = args
    /\ dicts' = res.dicts
    /\ ctx_raised' = res.raised
    /\ ctx_ret' = res.ret
    /\ pushed' = IF Len(res.dicts) > Len(dicts) THEN pushed + 1 ELSE pushed
    /\ popped' = IF Len(res.dicts) < Len(dicts) THEN popped + 1 ELSE popped
    /\ frame_ids' = IdsAfter(frame_ids, Len(res.dicts), pushed + 1)
    /\ with_blocks' = MarkBelow(blocks, Len(res.dicts))
    /\ UNCHANGED restOfWith

\* with ctx.push(d): the push, then ContextDict.__enter__ (lines 26-27)
WithEnter ==
    /\ body_exc = "none"
    /\ pushed < MaxPushes
    /\ \E d \in Mappings :
         InBody("push", <<d>>, push(dicts, <<d>>),
                Append(with_blocks, WithBlock(frame_ids, TRUE)))
    /\ body_exc' = "none"

BodyPush ==
    /\ body_exc = "none"
    /\ pushed < MaxPushes
    /\ \E d \in Mappings : InBody("push", <<d>>, push(dicts, <<d>>), with_blocks)
    /\ body_exc' = "none"

\* ctx.pop() in a body; its ContextPopException propagates
BodyPop ==
    /\ body_exc = "none"
    /\ InBody("pop", <<>>, pop(dicts), with_blocks)
    /\ body_exc' = pop(dicts).raised

BodySetItem ==
    /\ body_exc = "none"
    /\ \E k \in Keys, v \in Values : InBody("setitem", <<k, v>>, setitem(dicts, k, v), with_blocks)
    /\ body_exc' = "none"

BodySetUpward ==
    /\ body_exc = "none"
    /\ \E k \in Keys, v \in Values :
         InBody("set_upward", <<k, v>>, set_upward(dicts, k, v), with_blocks)
    /\ body_exc' = "none"

\* The body of the innermost with-block raises
BodyRaise ==
    /\ body_exc = "none"
    /\ with_blocks # <<>>
    /\ body_exc' = "Exception"
    /\ UNCHANGED <<dicts, ctxVars, frame_ids, with_blocks, restOfWith>>

\* The innermost with-block is left, its body having returned or raised:
\* ContextDict.__exit__
WithExit ==
    /\ with_blocks # <<>>
    /\ InBody("exit", <<>>, ContextDict_exit(dicts, body_exc),
              SubSeq(with_blocks, 1, Len(with_blocks) - 1))
    /\ body_exc' = IF ContextDict_exit(dicts, body_exc).raised # "none"
                   THEN ContextDict_exit(dicts, body_exc).raised ELSE body_exc

WithNext ==
    \/ WithEnter \/ BodyPush \/ BodyPop \/ BodySetItem \/ BodySetUpward \/ BodyRaise
    \/ WithExit

SpecWith == WithInit /\ [][WithNext]_vars

InnerBlock == with_blocks[Len(with_blocks)]

\* The innermost with-block is being left, and the pushes and pops made in
\* its body were nested and balanced
LeavingBalanced ==
    /\ Len(with_blocks') < Len(with_blocks)
    /\ InnerBlock.nested
    /\ Len(dicts) = Len(InnerBlock.before) + 1

\* C23: when the handle returned by push is used as a with-block, the frame
\* it pushed is popped on exit whether the body returned or raised: provided
\* the body's pushes and pops were nested and balanced, the stack after the
\* block is the same sequence of frames as before the push, and an exception
\* of the body goes on propagating.
C23_WithRestoresStack ==
    [][LeavingBalanced =>
         /\ frame_ids' = InnerBlock.before
         /\ Len(dicts') = Len(frame_ids')
         /\ ctx_raised' = "none"
         /\ body_exc' = body_exc]_vars

\* C23 witness: a with-block whose body pushed and popped a frame and then
\* raised has been left, and the stack holds the builtins frame only, as
\* before the block.
C23_Witness ==
    /\ ctx_op = "exit" /\ ctx_raised = "none" /\ body_exc = "Exception"
    /\ with_blocks = <<>> /\ frame_ids = <<0>> /\ Len(dicts) = 1
    /\ pushed = 2 /\ popped = 2

---------------------------------------------------------------------------
(* Rendering: RenderContext, Context.bind_template, Template.render *)

\* RenderContext.__getitem__ (lines 213-214) as a call
rc_getitem(frames, key) ==
    IF RenderContext_getitem(frames, key).ok
    THEN RcCall("getitem", key, "none", RenderContext_getitem(frames, key).v)
    ELSE RcCall("getitem", key, "KeyError", NoneV)

\* RenderContext.get (lines 210-211)
rc_get(frames, key, otherwise) ==
    RcCall("get", key, "none",
           IF key \in DOMAIN frames[Len(frames)] THEN frames[Len(frames)][key] ELSE otherwise)

\* RenderContext.__contains__ (lines 207-208)
rc_contains(frames, key) ==
    RcCall("contains", key, "none", BoolV(key \in DOMAIN frames[Len(frames)]))

\* RenderContext.__iter__ (lines 204-205) is a generator function: the call
\* returns a generator and runs none of the body, self.dicts is not read
rc_iter == Generator("created", 0, EmptyMap, 0, 0)

\* The keys the render context can hold besides the builtins, in the order
\* in which they were first assigned
RcKeyOrder == <<"a">>

\* The keys of a frame in the order a dict iterates them, the order of
\* insertion: the builtins as _reset_dicts (line 39) writes them, then the
\* keys assigned
KeyOrder(frame) ==
    SelectSeq(<<"True", "False", "None">> \o RcKeyOrder, LAMBDA k : k \in DOMAIN frame)

\* The dict a started generator walks
IterDict(gen, frames) == IF gen.idx = 0 THEN gen.frame ELSE frames[gen.idx]

\* The result of a next(): the generator afterwards and the call
Nexted(gen, key, raised) == [gen |-> gen, op |-> RcCall("next", key, raised, NoneV)]

Finished == Generator("done", 0, EmptyMap, 0, 0)

\* One step of the dict iterator that `yield from` drives: RuntimeError when
\* the dict no longer has the size it had when the iterator was made,
\* StopIteration after the last entry, else the next key
dict_next(gen, walked) ==
    IF Cardinality(DOMAIN walked) # gen.used THEN Nexted(Finished, "", "RuntimeError")
    ELSE IF gen.pos >= Len(KeyOrder(walked)) THEN Nexted(Finished, "", "StopIteration")
    ELSE Nexted([gen EXCEPT !.pos = @ + 1], KeyOrder(walked)[gen.pos + 1], "none")

\* The first next() enters the body: self.dicts[-1] is read now and iter()
\* of that dict records its size
iter_start(frames) ==
    Generator("started", Len(frames), EmptyMap, Cardinality(DOMAIN frames[Len(frames)]), 0)

\* next() on the generator (lines 204-205): a generator that has finished
\* raises StopIteration
rc_next(gen, frames) ==
    CASE gen.state = "created" -> dict_next(iter_start(frames), frames[Len(frames)])
      [] gen.state = "started" -> dict_next(gen, IterDict(gen, frames))
      [] OTHER -> Nexted(Finished, "", "StopIteration")

\* The top frame is popped: a generator walking it keeps the dict
iter_after_pop(gen, frames) ==
    IF gen.state = "started" /\ gen.idx = Len(frames)
    THEN [gen EXCEPT !.idx = 0, !.frame = frames[Len(frames)]]
    ELSE gen

\* RenderContext.push_state (lines 218-221) up to the yield: the frames
push_state_enter(frames, isolated_context) ==
    IF isolated_context THEN push(frames, <<>>).dicts ELSE frames

\* The finally clause of push_state leaving self.template as it is
template_restored_Kept(now, initial) == now

\* self.template = initial (line 225)
template_restored(now, initial) == initial

\* The finally clause of push_state (lines 226-227): the frames
push_state_exit(frames, isolated_context) ==
    IF isolated_context THEN pop(frames) ELSE CtxResult(frames, "none", NoneV)

\* Template.render (base.py lines 177-178) enters bind_template when
\* context.template is None; the binding then made by Context.bind_template
\* (context.py line 167)
bind_template_enter(bound_to, template) == IF bound_to = "none" THEN template ELSE bound_to

\* Leaving Template.render: the finally clause of bind_template (lines
\* 170-171) runs if this render entered it
bind_template_exit(bound_to, entered) == IF entered THEN "none" ELSE bound_to

\* A push_state scope, entered by Template.render or by a node calling
\* push_state itself: what push_state and render keep to restore (initial,
\* isolated_context, whether bind_template was entered), and what the scope
\* found on entering: the number of frames, the keys of the top frame,
\* context.template
Scope(initial, isolated, entered_bind, depth, visible, bound_to) ==
    [initial |-> initial, isolated |-> isolated, entered_bind |-> entered_bind,
     depth |-> depth, visible |-> visible, bound_to |-> bound_to]

Templates == {"t1", "t2"}
RcKeys == {"a"}

RenderInit ==
    /\ LookupIdle /\ dicts = <<builtins>> /\ string_if_invalid = StrV(<<>>, FALSE)
    /\ FilterIdle
    /\ CompileIdle
    /\ ArgsIdle
    /\ LexIdle
    /\ ParseIdle
    /\ CtxIdle
    /\ WithIdle
    /\ rc_dicts = reset_dicts(<<>>)
    /\ rc_template = "none"
    /\ ctx_template = "none"
    /\ scopes = <<>>
    /\ render_exc = "none"
    /\ rc_op = RcCall("none", "", "none", NoneV)
    /\ rc_it = NoIter

\* Template.render(context) is called, by the user or by a node of the
\* template being rendered: push_state and bind_template are entered
RenderEnter ==
    /\ render_exc = "none"
    /\ Len(scopes) < MaxScopes
    /\ \E t \in Templates :
         /\ rc_template' = t
         /\ rc_dicts' = push_state_enter(rc_dicts, TRUE)
         /\ ctx_template' = bind_template_enter(ctx_template, t)
         /\ scopes' = Append(scopes, Scope(rc_template, TRUE,
                                           ctx_template = "none", Len(rc_dicts),
                                           DOMAIN rc_dicts[Len(rc_dicts)], ctx_template))
         /\ rc_op' = RcCall("render", t, "none", NoneV)
    /\ UNCHANGED <<render_exc, rc_it, restOfRender>>

\* A node calls context.render_context.push_state(template, isolated_context)
PushState ==
    /\ render_exc = "none"
    /\ Len(scopes) < MaxScopes
    /\ \E t \in Templates, isolated \in BOOLEAN :
         /\ rc_template' = t
         /\ rc_dicts' = push_state_enter(rc_dicts, isolated)
         /\ scopes' = Append(scopes, Scope(rc_template, isolated, FALSE,
                                           Len(rc_dicts), DOMAIN rc_dicts[Len(rc_dicts)],
                                           ctx_template))
         /\ rc_op' = RcCall("push_state", t, "none", NoneV)
    /\ UNCHANGED <<ctx_template, render_exc, rc_it, restOfRender>>

\* render_context[key] = value
RcSetItem ==
    /\ render_exc = "none"
    /\ \E k \in RcKeys, v \in Values :
         /\ rc_dicts' = setitem(rc_dicts, k, v).dicts
         /\ rc_op' = RcCall("setitem", k, "none", NoneV)
    /\ UNCHANGED <<scopes, rc_template, ctx_template, render_exc, rc_it, restOfRender>>

\* render_context.set_upward(key, value)
RcSetUpward ==
    /\ render_exc = "none"
    /\ \E k \in RcKeys, v \in Values :
         /\ rc_dicts' = set_upward(rc_dicts, k, v).dicts
         /\ rc_op' = RcCall("set_upward", k, "none", NoneV)
    /\ UNCHANGED <<scopes, rc_template, ctx_template, render_exc, rc_it, restOfRender>>

\* render_context[key], .get(key, 0), key in render_context
RcRead ==
    /\ render_exc = "none"
    /\ \E k \in RcKeys :
         \/ rc_op' = rc_getitem(rc_dicts, k)
         \/ rc_op' = rc_get(rc_dicts, k, IntV(0))
         \/ rc_op' = rc_contains(rc_dicts, k)
    /\ UNCHANGED <<rc_dicts, rc_template, ctx_template, scopes, render_exc, rc_it,
                   restOfRender>>

\* iter(render_context): the node, or the for statement, gets a generator
RcIter ==
    /\ render_exc = "none"
    /\ rc_it' = rc_iter
    /\ rc_op' = RcCall("iter", "", "none", NoneV)
    /\ UNCHANGED <<rc_dicts, rc_template, ctx_template, scopes, render_exc, restOfRender>>

\* next() on that generator; what the consumer does with the key, or between
\* two keys, are the other actions
RcNext ==
    /\ render_exc = "none"
    /\ rc_it.state # "none"
    /\ rc_it' = rc_next(rc_it, rc_dicts).gen
    /\ rc_op' = rc_next(rc_it, rc_dicts).op
    /\ UNCHANGED <<rc_dicts, rc_template, ctx_template, scopes, render_exc, restOfRender>>

\* A node being rendered raises
RenderRaise ==
    /\ render_exc = "none"
    /\ scopes # <<>>
    /\ render_exc' = "Exception"
    /\ UNCHANGED <<rc_dicts, rc_template, ctx_template, scopes, rc_op, rc_it, restOfRender>>

\* The innermost scope is left, by return or by the exception: the finally
\* clauses of bind_template, if this render entered it, and of push_state
ScopeExit ==
    /\ scopes # <<>>
    /\ ctx_template' = bind_template_exit(ctx_template, scopes[Len(scopes)].entered_bind)
    /\ rc_template' = template_restored(rc_template, scopes[Len(scopes)].initial)
    /\ rc_dicts' = push_state_exit(rc_dicts, scopes[Len(scopes)].isolated).dicts
    /\ render_exc' = IF push_state_exit(rc_dicts, scopes[Len(scopes)].isolated).raised # "none"
                     THEN push_state_exit(rc_dicts, scopes[Len(scopes)].isolated).raised
                     ELSE render_exc
    /\ scopes' = SubSeq(scopes, 1, Len(scopes) - 1)
    /\ rc_op' = RcCall("exit", "", "none", NoneV)
    /\ rc_it' = IF scopes[Len(scopes)].isolated THEN iter_after_pop(rc_it, rc_dicts) ELSE rc_it
    /\ UNCHANGED restOfRender

RenderNext ==
    \/ RenderEnter \/ PushState \/ RcSetItem \/ RcSetUpward \/ RcRead \/ RcIter \/ RcNext
    \/ RenderRaise \/ ScopeExit

SpecRender == RenderInit /\ [][RenderNext]_vars

TopFrame(frames) == frames[Len(frames)]
Entering == Len(scopes') > Len(scopes)
Leaving == Len(scopes') < Len(scopes)
Innermost == scopes[Len(scopes)]

\* What a read of the top frame alone gives
TopOnly(op, key) ==
    CASE op = "getitem" ->
           IF key \in DOMAIN TopFrame(rc_dicts)
           THEN RcCall(op, key, "none", TopFrame(rc_dicts)[key])
           ELSE RcCall(op, key, "KeyError", NoneV)
      [] op = "get" ->
           RcCall(op, key, "none",
                  IF key \in DOMAIN TopFrame(rc_dicts) THEN TopFrame(rc_dicts)[key]
                  ELSE IntV(0))
      [] OTHER -> RcCall(op, key, "none", BoolV(key \in DOMAIN TopFrame(rc_dicts)))

ReadOps == {"getitem", "get", "contains"}

C25_ReadsTopOnly == rc_op.op \in ReadOps => rc_op = TopOnly(rc_op.op, rc_op.key)

\* The frames agree except at a key
SameBut(before, after, key) ==
    /\ Len(after) = Len(before)
    /\ \A i \in 1..Len(before) :
         /\ DOMAIN after[i] \ {key} = DOMAIN before[i] \ {key}
         /\ \A k \in DOMAIN before[i] \ {key} : after[i][k] = before[i][k]

Below(frames) == SubSeq(frames, 1, Len(frames) - 1)

\* A generator reads self.dicts[-1] when it is first advanced and walks that
\* dict from then on
C25_IterStep ==
    RcNext =>
      /\ rc_it.state = "created" /\ rc_it'.state = "started" => rc_it'.idx = Len(rc_dicts)
      /\ rc_op'.raised = "none" =>
            /\ rc_it'.state = "started"
            /\ rc_op'.key \in DOMAIN IterDict(rc_it', rc_dicts)
            /\ rc_it.state = "created" => rc_op'.key \in DOMAIN TopFrame(rc_dicts)
            /\ rc_it.state = "started" => IterDict(rc_it', rc_dicts) = IterDict(rc_it, rc_dicts)
      /\ rc_op'.raised = "RuntimeError" =>
            /\ rc_it.state = "started"
            /\ Cardinality(DOMAIN IterDict(rc_it, rc_dicts)) # rc_it.used

C25_IsolatedStep ==
    /\ Entering /\ scopes'[Len(scopes')].isolated =>
           TopFrame(rc_dicts') = EmptyMap /\ Below(rc_dicts') = rc_dicts
    /\ Entering /\ ~scopes'[Len(scopes')].isolated => rc_dicts' = rc_dicts
    /\ Leaving /\ Innermost.isolated =>
           rc_dicts' = Below(rc_dicts) /\ DOMAIN TopFrame(rc_dicts') = Innermost.visible
    /\ Leaving /\ ~Innermost.isolated => rc_dicts' = rc_dicts
    /\ ~Entering /\ ~Leaving /\ rc_dicts' # rc_dicts =>
           /\ rc_op'.op \in {"setitem", "set_upward"}
           /\ SameBut(rc_dicts, rc_dicts', rc_op'.key)
           /\ rc_op'.op = "setitem" => Below(rc_dicts') = Below(rc_dicts)

\* C25 (amended): lookup, get and containment on the render context read the
\* top frame only, and an iteration walks the one frame that is on top when
\* its first key is asked for; a push_state scope entered with
\* isolated_context true starts with no key visible, gets keys only by writes
\* made in it, and on exit leaves visible the keys that were visible before
\* it, the frames under its own changed by set_upward only; a scope entered
\* with isolated_context false leaves the frames as they are on entry and
\* on exit
C25_IsolatedScopes ==
    /\ []C25_ReadsTopOnly
    /\ [][C25_IterStep]_vars
    /\ [][C25_IsolatedStep]_vars

\* C25 as stated: every key an iteration yields is a key of the top frame, on
\* every push_state entry no key that was written is visible, and after
\* every exit the keys visible are those visible before the scope, whatever
\* was written inside
C25_EveryScope ==
    [][/\ RcNext /\ rc_op'.raised = "none" => rc_op'.key \in DOMAIN TopFrame(rc_dicts)
       /\ Entering => DOMAIN TopFrame(rc_dicts') \cap RcKeys = {}
       /\ Leaving => DOMAIN TopFrame(rc_dicts') = Innermost.visible]_vars

\* In a nested isolated scope a key of the enclosing scope's frame was looked
\* up and not found
C25_Witness ==
    /\ Len(scopes) = 2 /\ Innermost.isolated
    /\ "a" \in DOMAIN rc_dicts[Len(rc_dicts) - 1]
    /\ rc_op = RcCall("getitem", "a", "KeyError", NoneV)

C27_RenderStep ==
    /\ Leaving =>
         /\ Len(rc_dicts') = Innermost.depth
         /\ rc_template' = Innermost.initial
         /\ ctx_template' = Innermost.bound_to
         /\ Len(scopes') = 0 => ctx_template' = "none"
    /\ Entering /\ ctx_template # "none" => ctx_template' = ctx_template

\* C27: leaving Template.render, by return or by exception, the render
\* context has the depth and the template it had on entering and
\* context.template is what it was, None after the outermost render; a render
\* on a context that is already bound leaves the binding alone
C27_RenderRestores == [][C27_RenderStep]_vars

\* A nested render was left by an exception and the binding of the outer
\* render is still in place
C27_Witness ==
    /\ rc_op.op = "exit" /\ render_exc = "Exception"
    /\ Len(scopes) = 1 /\ scopes[1].entered_bind
    /\ ctx_template # "none" /\ rc_template = ctx_template

====
